---------------------------- MODULE Spec2Model ----------------------------
(***************************************************************************)
(* Verification model of the distributed string sorter: one round of the   *)
(* Bloom-filter duplicate detector (sorter/distributed/bloomfilter.hpp)    *)
(* run by envSize ranks, and the multi-level merge sort driver.            *)
(*                                                                         *)
(* Strings are sequences of characters 1..2 ('a', 'b').  Indices keep the  *)
(* 0-based values of the code; a TLA+ sequence s holds index i at s[i+1].  *)
(***************************************************************************)
EXTENDS Integers, Sequences, FiniteSets, TLC

(***************************************************************************)
(* Bounds of the model.                                                    *)
(***************************************************************************)
MaxStrings == 3    \* largest number of strings held by all ranks together
MaxDepth == 2      \* largest probe depth of a filter round
WordBits == 3      \* width of size_t, scaled down from 64

\* the strings a rank may hold: "", "a", "ab", "b"
StringUniverse == { << >>, << 1 >>, << 1, 2 >>, << 2 >> }
\* keys of the hash function: 1 and 2 separate the prefixes, 7 makes them collide
HashSeeds == { 1, 2, 7 }
\* communicator sizes explored
CommSizes == { 1, 2 }
\* communicator sizes of the round over copies of one string
CopyCommSizes == { 1, 2, 4 }

MaxSortStrings == 3  \* largest number of strings the sorter is given
MaxRounds == 4       \* largest number of rounds of prefix doubling
MaxHashes == 3       \* longest list of hash values given to a function
MaxContStrings == 3  \* largest number of strings a container is built from
MaxTailLen == 1      \* longest string in a raw buffer
MaxUpdateStrings == 2 \* largest number of strings in the buffer of an update
MaxLcp == 2          \* largest lcp value handed to extend_prefix
MaxOps == 2          \* longest sequence of container operations
MaxIntervalLen == 2  \* longest interval of a Golomb-coded exchange
MaxCopies == 3       \* largest number of copies of the string on one rank
MaxLevels == 3       \* longest level schedule on the command line
MaxIterations == 2   \* largest number of sort iterations
MaxRing == 3         \* largest ring of rotate_strings_right
MaxRotateLen == 1    \* longest source vector of rotate_strings_right
MaxRank == 3         \* largest global rank of count_duplicate_ranks
MaxRanks == 3        \* most global ranks held by all processes together
\* communicator sizes for computeIntervalSizes
IntervalCommSizes == { 1, 2, 3, 4 }
\* the strings the sorter is given: "a", "ab", "b"
SortUniverse == { << 1 >>, << 1, 2 >>, << 2 >> }
\* communicator sizes of the sorter
SortCommSizes == { 1, 2, 4 }
\* group sizes a level schedule may name
LevelSizes == { 2, 4 }
\* group sizes the command line may give
LevelParams == { 1, 2, 4 }
\* sizes of the ring
RingSizes == 1 .. MaxRing

WordMod == 2 ^ WordBits

\* BloomFilter::bloomFilterSize = std::numeric_limits<uint64_t>::max()
bloomFilterSize == WordMod - 1

VARIABLES
    envSize,          \* env.size()
    seed,             \* key of the hash function, the same on every rank
    depth,            \* probe depth of the round
    strings,          \* [rank -> locally sorted strings]
    lcps,             \* [rank -> LCP array of strings]
    candidates,       \* [rank -> sorted candidate indices]
    round,            \* number of the filter round (prefix doubling)
    results,          \* [rank -> distinguishing depth per string]
    pc,               \* [rank -> position in BloomFilter::filter]
    colls,            \* [rank -> collectives entered so far, in order]
    marked,           \* [rank -> hashStringIndices after localDuplicateIndices]
    hashStringIndices,\* [rank -> hashStringIndices after erase_if (shipped)]
    local_duplicates, \* [rank -> result of localDuplicateIndices]
    localLcpDuplicates,
    eosCandidates,
    intervalSizes,    \* [rank -> send counts per receiver]
    offsets,          \* [rank -> exclusive scan of intervalSizes]
    recvData,         \* [rank -> RecvData]
    merged_triples,   \* [rank -> merged HashPEIndex stream]
    result_sets,      \* [rank -> per origin, the indices to report]
    any_local_dups,   \* [rank -> contribution to the allreduce]
    any_dups,         \* [rank -> result of the allreduce as seen by the rank]
    duplicates,       \* [rank -> indices received back (remote duplicates)]
    indicesOfAllDuplicates \* [rank -> list returned by filter]

inputVars == << envSize, seed, depth, strings, lcps, candidates, round >>
localVars == << marked, hashStringIndices, local_duplicates,
                localLcpDuplicates, eosCandidates, intervalSizes, offsets >>
recvVars == << recvData, merged_triples, result_sets, any_local_dups >>
filterVars == << inputVars, results, pc, colls, localVars, recvVars,
                 any_dups, duplicates, indicesOfAllDuplicates >>

VARIABLES
    input,            \* [rank -> strings generated on the rank]
    container,        \* [rank -> strings the rank holds]
    grid,             \* the communicators of every level, g_0 first
    level,            \* position in grid of the level the ranks work on
    sortPc,           \* the step of the sort driver the ranks are at
    splitters,        \* [rank -> splitters chosen for its communicator]
    interval_sizes,   \* [rank -> send counts per receiver]
    recv_counts       \* [rank -> lengths of the runs received]

sortVars == << input, container, grid, level, sortPc, splitters,
               interval_sizes, recv_counts >>

VARIABLES
    call,             \* the function under study and its arguments
    ret,              \* its result, << >> before the call
    obj,              \* the StringLcpContainer under study
    nops              \* the number of operations applied to it

unitVars == << call, ret, obj, nops >>

vars == << filterVars, sortVars, unitVars >>

PEs == 0 .. (envSize - 1)

(***************************************************************************)
(* Sequences and strings.                                                  *)
(***************************************************************************)
Range(s) == { s[i] : i \in DOMAIN s }

RECURSIVE SumSeq(_)
SumSeq(s) == IF s = << >> THEN 0 ELSE Head(s) + SumSeq(Tail(s))

RECURSIVE Concat(_)
Concat(ss) == IF ss = << >> THEN << >> ELSE Head(ss) \o Concat(Tail(ss))

Min(a, b) == IF a < b THEN a ELSE b

\* dss_schimek::calc_lcp on null-terminated strings
RECURSIVE calc_lcp(_, _)
calc_lcp(s, t) ==
    IF s = << >> \/ t = << >> \/ Head(s) # Head(t)
    THEN 0
    ELSE 1 + calc_lcp(Tail(s), Tail(t))

\* lexicographic order of null-terminated strings
StrLess(s, t) ==
    LET l == calc_lcp(s, t)
    IN  IF l = Len(s) THEN l < Len(t)
        ELSE IF l = Len(t) THEN FALSE
        ELSE s[l + 1] < t[l + 1]

StrLeq(s, t) == s = t \/ StrLess(s, t)

IsSortedStrings(ss) == \A i \in 1 .. (Len(ss) - 1) : StrLeq(ss[i], ss[i + 1])

\* the LCP array the local sorter returns: lcps[0] = 0, lcps[i] = lcp(s[i-1], s[i])
LcpArray(ss) ==
    [i \in 1 .. Len(ss) |-> IF i = 1 THEN 0 ELSE calc_lcp(ss[i - 1], ss[i])]

Prefix(s, d) == SubSeq(s, 1, Min(d, Len(s)))

(***************************************************************************)
(* Hashing: SipHasher::hash / XXHasher::hash return digest % bloomFilterSize.*)
(* The digest is a keyed function of the first `length` bytes; it is       *)
(* modelled as key * (base-3 value of the bytes), so that different keys   *)
(* give injective and colliding hash functions.                            *)
(***************************************************************************)
RECURSIVE Digest(_, _)
Digest(acc, bytes) ==
    IF bytes = << >> THEN acc ELSE Digest(acc * 3 + Head(bytes), Tail(bytes))

Hash(key, str, length) == (key * Digest(0, Prefix(str, length))) % bloomFilterSize

(***************************************************************************)
(* HashStringIndex                                                         *)
(***************************************************************************)
HashStringIndex(hashValue, stringIndex) ==
    [ hashValue |-> hashValue, stringIndex |-> stringIndex,
      isLocalDuplicate |-> FALSE, isLocalDuplicateButSendAnyway |-> FALSE,
      isLcpLocalRoot |-> FALSE ]

SetBack(data, field, value) ==
    [data EXCEPT ![Len(data)] = [@ EXCEPT ![field] = value]]

(***************************************************************************)
(* BloomFilter::generateHashStringIndices, the overload with candidates.   *)
(* acc = [data, localDups, eosCandidates, ub]; ub records a use of         *)
(* hashStringIndices.back() on an empty vector.                            *)
(***************************************************************************)
\* if (depth > length): the candidate is an EOS candidate
isEOSMut(d, length) == d >= length

isEOSLate(d, length) == d > length + 1

isEOS(d, length) == d > length

GenFirst(key, ss, cands, d) ==
    LET curCandidate == cands[1]
        curString == ss[curCandidate + 1]
    IN  IF isEOS(d, Len(curString))
        THEN [ data |-> << >>, localDups |-> << >>,
               eosCandidates |-> << curCandidate >>, ub |-> FALSE ]
        ELSE [ data |-> << HashStringIndex(Hash(key, curString, d), curCandidate) >>,
               localDups |-> << >>, eosCandidates |-> << >>, ub |-> FALSE ]

GenStep(key, ss, cands, d, lcp, i, acc) ==
    LET curCandidate == cands[i]
        prevCandidate == cands[i - 1]
        curString == ss[curCandidate + 1]
    IN  IF isEOS(d, Len(curString))
        THEN [acc EXCEPT !.eosCandidates = Append(@, curCandidate)]
        ELSE IF prevCandidate + 1 = curCandidate /\ lcp[curCandidate + 1] >= d
        THEN IF acc.data = << >>
             THEN [acc EXCEPT !.localDups = Append(@, curCandidate), !.ub = TRUE]
             ELSE IF acc.data[Len(acc.data)].stringIndex + 1 = curCandidate
             THEN [acc EXCEPT !.localDups = Append(@, curCandidate),
                              !.data = SetBack(@, "isLcpLocalRoot", TRUE)]
             ELSE [acc EXCEPT !.localDups = Append(@, curCandidate)]
        ELSE [acc EXCEPT !.data =
                  Append(@, HashStringIndex(Hash(key, curString, d), curCandidate))]

RECURSIVE GenLoop(_, _, _, _, _, _, _)
GenLoop(key, ss, cands, d, lcp, i, acc) ==
    IF i > Len(cands) THEN acc
    ELSE GenLoop(key, ss, cands, d, lcp, i + 1,
                 GenStep(key, ss, cands, d, lcp, i, acc))

generateHashStringIndices(key, ss, cands, d, lcp) ==
    IF cands = << >>
    THEN [ data |-> << >>, localDups |-> << >>, eosCandidates |-> << >>, ub |-> FALSE ]
    ELSE GenLoop(key, ss, cands, d, lcp, 2, GenFirst(key, ss, cands, d))

(***************************************************************************)
(* ips4o::sort(hashStringIndices): not stable, so every arrangement that   *)
(* is ascending by hashValue is a possible outcome.                        *)
(***************************************************************************)
IndexPerms(n) ==
    { f \in [1 .. n -> 1 .. n] : \A i, j \in 1 .. n : i # j => f[i] # f[j] }

IsSortedByHash(s) ==
    \A i \in 1 .. (Len(s) - 1) : s[i].hashValue <= s[i + 1].hashValue

SortOutcomes(s) ==
    { t \in { [i \in 1 .. Len(s) |-> s[f[i]]] : f \in IndexPerms(Len(s)) } :
        IsSortedByHash(t) }

(***************************************************************************)
(* BloomFilter::localDuplicateIndices.  st = [values, dups]; `it` is the   *)
(* 1-based position of the iterator.                                       *)
(***************************************************************************)
MarkDup(st, pos, sendAnyway) ==
    [ values |-> [st.values EXCEPT ![pos] =
                     [@ EXCEPT !.isLocalDuplicate = TRUE,
                               !.isLocalDuplicateButSendAnyway =
                                   IF sendAnyway THEN TRUE ELSE @]],
      dups |-> Append(st.dups, st.values[pos].stringIndex) ]

\* while (++it < end && it->hashValue == pivot.hashValue): `it` is the
\* position before the increment; returns [st, it] after the loop
RECURSIVE RunLoop(_, _, _)
RunLoop(st, it, pivotHash) ==
    LET nxt == it + 1
    IN  IF nxt <= Len(st.values) /\ st.values[nxt].hashValue = pivotHash
        THEN RunLoop(MarkDup(st, nxt, FALSE), nxt, pivotHash)
        ELSE [ st |-> st, it |-> nxt ]

RECURSIVE LdiLoop(_, _)
LdiLoop(st, it) ==
    IF ~(it < Len(st.values)) THEN st
    ELSE LET pivot == it
             nx == it + 1
         IN  IF st.values[nx].hashValue = st.values[pivot].hashValue
             THEN LET r == RunLoop(MarkDup(MarkDup(st, pivot, TRUE), nx, FALSE),
                                   nx, st.values[pivot].hashValue)
                  IN  LdiLoop(r.st, r.it)
             ELSE IF st.values[pivot].isLcpLocalRoot
             THEN LdiLoop(MarkDup(st, pivot, TRUE), nx)
             ELSE LdiLoop(st, nx)

localDuplicateIndices(local_values) ==
    IF local_values = << >>
    THEN [ values |-> << >>, dups |-> << >> ]
    ELSE LET st == LdiLoop([ values |-> local_values, dups |-> << >> ], 1)
         IN  IF st.values[Len(st.values)].isLcpLocalRoot
             THEN MarkDup(st, Len(st.values), TRUE)
             ELSE st

shouldSendMut(v) == ~v.isLocalDuplicate

\* BloomFilter::shouldSend
shouldSend(v) == ~v.isLocalDuplicate \/ v.isLocalDuplicateButSendAnyway

RECURSIVE SelectSend(_)
SelectSend(s) ==
    IF s = << >> THEN << >>
    ELSE IF shouldSend(Head(s)) THEN << Head(s) >> \o SelectSend(Tail(s))
    ELSE SelectSend(Tail(s))

(***************************************************************************)
(* computeIntervalSizes: upper_bound on the sorted hashes, per receiver.   *)
(***************************************************************************)
RECURSIVE UpperBoundMut(_, _, _)
UpperBoundMut(hashes, pos, limit) ==
    IF pos > Len(hashes) \/ hashes[pos] >= limit THEN pos
    ELSE UpperBoundMut(hashes, pos + 1, limit)

\* std::upper_bound(current_pos, end, limit): first position whose value > limit
RECURSIVE UpperBound(_, _, _)
UpperBound(hashes, pos, limit) ==
    IF pos > Len(hashes) \/ hashes[pos] > limit THEN pos
    ELSE UpperBound(hashes, pos + 1, limit)

RECURSIVE IntervalLoop(_, _, _, _, _, _)
IntervalLoop(hashes, filterSize, size, i, current_pos, intervals) ==
    IF ~(i + 1 < size)
    THEN Append(intervals, (Len(hashes) + 1) - current_pos)
    ELSE LET upper_limit == ((i + 1) * (filterSize \div size) - 1) % WordMod
             pos == UpperBound(hashes, current_pos, upper_limit)
         IN  IntervalLoop(hashes, filterSize, size, i + 1, pos,
                          Append(intervals, pos - current_pos))

computeIntervalSizes(hashes, filterSize, size) ==
    IntervalLoop(hashes, filterSize, size, 0, 1, << >>)

\* std::exclusive_scan(first, last, out, 0)
exclusive_scan(s) == [i \in 1 .. Len(s) |-> SumSeq(SubSeq(s, 1, i - 1))]

get_hash(hsis) == [i \in 1 .. Len(hsis) |-> hsis[i].hashValue]

(***************************************************************************)
(* Collectives.  A rank that has entered its n-th collective returns from  *)
(* it once every rank has entered its n-th collective.                     *)
(***************************************************************************)
AllEntered(p) == \A q \in PEs : Len(colls[q]) >= Len(colls[p])

\* mpi::alltoall(v): element k of the result is element `me` of rank k's v
alltoall(sent, me) == [k \in 1 .. envSize |-> sent[k - 1][me + 1]]

\* AllToAllHashesNaive::alltoallv: the intervals addressed to `me`, in sender order
alltoallv(sendData, sendCounts, me) ==
    Concat([k \in 1 .. envSize |->
              LET off == exclusive_scan(sendCounts[k - 1])[me + 1]
              IN  SubSeq(sendData[k - 1], off + 1, off + sendCounts[k - 1][me + 1])])

(***************************************************************************)
(* SendOnlyHashesToFilter::addPEIndex                                      *)
(***************************************************************************)
RECURSIVE AdvancePE(_, _, _, _)
AdvancePE(sizes, i, curPE, curBoundary) ==
    IF i = curBoundary
    THEN AdvancePE(sizes, i, curPE + 1, curBoundary + sizes[curPE + 2])
    ELSE [ curPE |-> curPE, curBoundary |-> curBoundary ]

RECURSIVE AddPELoop(_, _, _, _, _)
AddPELoop(rd, i, curPE, curBoundary, out) ==
    IF ~(i < Len(rd.data)) THEN out
    ELSE LET a == AdvancePE(rd.intervalSizes, i, curPE, curBoundary)
         IN  AddPELoop(rd, i + 1, a.curPE, a.curBoundary,
                       Append(out, [ hashValue |-> rd.data[i + 1],
                                     PEIndex |-> a.curPE ]))

addPEIndex(rd) == AddPELoop(rd, 0, 0, rd.intervalSizes[1], << >>)

(***************************************************************************)
(* FindDuplicates::findDuplicates.  tlx::multiway_merge is not stable:     *)
(* every arrangement ascending by hashValue is a possible merged stream.   *)
(***************************************************************************)
MergeOutcomes(triples) == SortOutcomes(triples)

\* one entry of the walk: idx = counters[prev->PEIndex]++
Report(st, pe, idx) ==
    [st EXCEPT !.result_sets[pe + 1] = Append(@, idx)]

RECURSIVE FindLoop(_, _, _)
FindLoop(merged, prev, st) ==
    IF prev + 1 > Len(merged) THEN st
    ELSE LET pe == merged[prev].PEIndex
             idx == st.counters[pe + 1]
             st1 == [st EXCEPT !.counters[pe + 1] = @ + 1]
         IN  IF merged[prev].hashValue = merged[prev + 1].hashValue
             THEN FindLoop(merged, prev + 1,
                           [Report(st1, pe, idx) EXCEPT !.duplicate = TRUE])
             ELSE IF st.duplicate
             THEN FindLoop(merged, prev + 1,
                           [Report(st1, pe, idx) EXCEPT !.duplicate = FALSE])
             ELSE FindLoop(merged, prev + 1, st1)

\* the walk without the report after the loop (lines 411-413 left out)
findDuplicatesWalkNoTail(merged, global_offsets, nPE) ==
    LET st0 == [ counters |-> global_offsets,
                 result_sets |-> [k \in 1 .. nPE |-> << >>],
                 duplicate |-> FALSE ]
    IN  IF merged = << >> THEN st0.result_sets
        ELSE FindLoop(merged, 1, st0).result_sets

\* the walk with the counters started at 0 instead of the global offsets
findDuplicatesWalkNoOffsets(merged, global_offsets, nPE) ==
    LET st0 == [ counters |-> [k \in 1 .. nPE |-> 0],
                 result_sets |-> [k \in 1 .. nPE |-> << >>],
                 duplicate |-> FALSE ]
    IN  IF merged = << >> THEN st0.result_sets
        ELSE LET st == FindLoop(merged, 1, st0)
                 last == merged[Len(merged)].PEIndex
             IN  IF st.duplicate
                 THEN Report(st, last, st.counters[last + 1]).result_sets
                 ELSE st.result_sets

findDuplicatesWalk(merged, global_offsets, nPE) ==
    LET st0 == [ counters |-> global_offsets,
                 result_sets |-> [k \in 1 .. nPE |-> << >>],
                 duplicate |-> FALSE ]
    IN  IF merged = << >> THEN st0.result_sets
        ELSE LET st == FindLoop(merged, 1, st0)
                 last == merged[Len(merged)].PEIndex
             IN  IF st.duplicate
                 THEN Report(st, last, st.counters[last + 1]).result_sets
                 ELSE st.result_sets

(***************************************************************************)
(* FindDuplicates::getSortedIndicesOfDuplicates                            *)
(***************************************************************************)
RECURSIVE InsertSorted(_, _)
InsertSorted(x, s) ==
    IF s = << >> THEN << x >>
    ELSE IF x <= Head(s) THEN << x >> \o s
    ELSE << Head(s) >> \o InsertSorted(x, Tail(s))

RECURSIVE SortNat(_)
SortNat(s) == IF s = << >> THEN << >> ELSE InsertSorted(Head(s), SortNat(Tail(s)))

RECURSIVE Merge(_, _)
Merge(a, b) ==
    IF a = << >> THEN b
    ELSE IF b = << >> THEN a
    ELSE IF Head(b) < Head(a) THEN << Head(b) >> \o Merge(a, Tail(b))
    ELSE << Head(a) >> \o Merge(Tail(a), b)

\* the remote duplicates that are not flagged send_anyway, as string indices;
\* ub: originalMapping was indexed past its end
RECURSIVE RemoteLoop(_, _, _)
RemoteLoop(remoteDuplicates, originalMapping, acc) ==
    IF remoteDuplicates = << >> THEN acc
    ELSE LET curIndex == Head(remoteDuplicates)
         IN  IF curIndex + 1 > Len(originalMapping)
             THEN RemoteLoop(Tail(remoteDuplicates), originalMapping,
                             [acc EXCEPT !.ub = TRUE])
             ELSE IF ~originalMapping[curIndex + 1].isLocalDuplicateButSendAnyway
             THEN RemoteLoop(Tail(remoteDuplicates), originalMapping,
                     [acc EXCEPT !.list =
                         Append(@, originalMapping[curIndex + 1].stringIndex)])
             ELSE RemoteLoop(Tail(remoteDuplicates), originalMapping, acc)

sortedIndicesOfRemoteDuplicates(remoteDuplicates, originalMapping) ==
    SortNat(RemoteLoop(remoteDuplicates, originalMapping,
                       [ list |-> << >>, ub |-> FALSE ]).list)

\* tlx::multiway_merge of the three sorted index lists
getSortedIndicesOfDuplicates(localHashDups, localDups, remoteDups, origMapping) ==
    Merge(Merge(SortNat(localHashDups), localDups),
          sortedIndicesOfRemoteDuplicates(remoteDups, origMapping))

(***************************************************************************)
(* BloomFilter::setDepth, the overload with candidates                     *)
(***************************************************************************)
setDepthFill(ss, d, cands, eos, res) ==
    [i \in 1 .. Len(res) |-> IF (i - 1) \in Range(eos) THEN Len(ss[i]) ELSE d]

setDepth(ss, d, cands, eos, res) ==
    [i \in 1 .. Len(res) |->
        IF (i - 1) \in Range(eos) THEN Len(ss[i])
        ELSE IF (i - 1) \in Range(cands) THEN d
        ELSE res[i]]

(***************************************************************************)
(* Initial states: every rank holds a locally sorted list of strings with  *)
(* its LCP array, and a sorted list of candidate indices.                  *)
(***************************************************************************)
SeqsUpTo(S, n) == UNION { [1 .. k -> S] : k \in 0 .. n }

LocalLists == { ss \in SeqsUpTo(StringUniverse, MaxStrings) : IsSortedStrings(ss) }

RECURSIVE SetToSortedSeq(_)
SetToSortedSeq(S) ==
    IF S = {} THEN << >>
    ELSE LET m == CHOOSE x \in S : \A y \in S : x <= y
         IN  << m >> \o SetToSortedSeq(S \ {m})

TotalStrings(f) == SumSeq([k \in 1 .. envSize |-> Len(f[k - 1])])

Empty == [p \in PEs |-> << >>]

EmptyRecvData == [ data |-> << >>, intervalSizes |-> << >>, globalOffsets |-> << >> ]

InitInputs ==
    /\ envSize \in CommSizes
    /\ seed \in HashSeeds
    /\ depth \in 1 .. MaxDepth
    /\ round = 1
    /\ strings \in { f \in [PEs -> LocalLists] : TotalStrings(f) <= MaxStrings }
    /\ lcps = [p \in PEs |-> LcpArray(strings[p])]
    /\ candidates \in
         { [p \in PEs |-> SetToSortedSeq(c[p])] :
             c \in { c \in [PEs -> SUBSET (0 .. (MaxStrings - 1))] :
                       \A p \in PEs : c[p] \subseteq 0 .. (Len(strings[p]) - 1) } }

InitFilter ==
    /\ InitInputs
    /\ results = [p \in PEs |-> [i \in 1 .. Len(strings[p]) |-> 0]]
    /\ pc = [p \in PEs |-> "start"]
    /\ colls = Empty
    /\ marked = Empty
    /\ hashStringIndices = Empty
    /\ local_duplicates = Empty
    /\ localLcpDuplicates = Empty
    /\ eosCandidates = Empty
    /\ intervalSizes = Empty
    /\ offsets = Empty
    /\ recvData = [p \in PEs |-> EmptyRecvData]
    /\ merged_triples = Empty
    /\ result_sets = Empty
    /\ any_local_dups = [p \in PEs |-> 0]
    /\ any_dups = [p \in PEs |-> FALSE]
    /\ duplicates = Empty
    /\ indicesOfAllDuplicates = Empty

\* the sort driver is not running
SortIdle ==
    /\ input = Empty
    /\ container = Empty
    /\ grid = << >>
    /\ level = 0
    /\ sortPc = "idle"
    /\ splitters = Empty
    /\ interval_sizes = Empty
    /\ recv_counts = Empty

\* no function is under study
UnitIdle ==
    /\ call = [op |-> "none"]
    /\ ret = << >>
    /\ obj = << >>
    /\ nops = 0

Init == InitFilter /\ SortIdle /\ UnitIdle

(***************************************************************************)
(* BloomFilter::filter(strptr, depth, candidates, results) on rank p, cut  *)
(* at the collectives.                                                     *)
(***************************************************************************)
Enter(p, name) ==
    /\ colls' = [colls EXCEPT ![p] = Append(@, name)]
    /\ pc' = [pc EXCEPT ![p] = name]

\* lines 827-845 and sendToFilter up to the first alltoall (lines 310-320)
GenerateAndSend(p) ==
    /\ pc[p] = "start"
    /\ LET gen == generateHashStringIndices(seed, strings[p], candidates[p],
                                            depth, lcps[p])
       IN  \E sorted \in SortOutcomes(gen.data) :
             LET ldi == localDuplicateIndices(sorted)
                 shipped == SelectSend(ldi.values)
                 sizes == computeIntervalSizes(get_hash(shipped),
                                               bloomFilterSize, envSize)
             IN  /\ marked' = [marked EXCEPT ![p] = ldi.values]
                 /\ local_duplicates' = [local_duplicates EXCEPT ![p] = ldi.dups]
                 /\ localLcpDuplicates' =
                        [localLcpDuplicates EXCEPT ![p] = gen.localDups]
                 /\ eosCandidates' = [eosCandidates EXCEPT ![p] = gen.eosCandidates]
                 /\ hashStringIndices' = [hashStringIndices EXCEPT ![p] = shipped]
                 /\ intervalSizes' = [intervalSizes EXCEPT ![p] = sizes]
                 /\ offsets' = [offsets EXCEPT ![p] = exclusive_scan(sizes)]
    /\ Enter(p, "alltoall_offsets")
    /\ UNCHANGED << sortVars, unitVars, inputVars, results, recvVars, any_dups, duplicates,
                    indicesOfAllDuplicates >>

\* offsets = mpi::alltoall(offsets, env) returns; mpi::alltoall(intervalSizes) (line 322)
ExchangeOffsets(p) ==
    /\ pc[p] = "alltoall_offsets"
    /\ AllEntered(p)
    /\ recvData' = [recvData EXCEPT ![p].globalOffsets = alltoall(offsets, p)]
    /\ Enter(p, "alltoall_counts")
    /\ UNCHANGED << sortVars, unitVars, inputVars, results, localVars, merged_triples, result_sets,
                    any_local_dups, any_dups, duplicates, indicesOfAllDuplicates >>

\* recvIntervalSizes returns; SendPolicy::alltoallv(sendValues, intervalSizes) (line 327)
ExchangeCounts(p) ==
    /\ pc[p] = "alltoall_counts"
    /\ AllEntered(p)
    /\ recvData' = [recvData EXCEPT ![p].intervalSizes = alltoall(intervalSizes, p)]
    /\ Enter(p, "alltoallv_hashes")
    /\ UNCHANGED << sortVars, unitVars, inputVars, results, localVars, merged_triples, result_sets,
                    any_local_dups, any_dups, duplicates, indicesOfAllDuplicates >>

\* the hashes arrive; addPEIndex; findDuplicates up to the allreduce (lines 361-431)
FindDuplicates(p) ==
    /\ pc[p] = "alltoallv_hashes"
    /\ AllEntered(p)
    /\ LET rd == [recvData[p] EXCEPT
                    !.data = alltoallv([q \in PEs |-> get_hash(hashStringIndices[q])],
                                       intervalSizes, p)]
       IN  \E merged \in MergeOutcomes(addPEIndex(rd)) :
             LET sets == findDuplicatesWalk(merged, rd.globalOffsets, envSize)
                 num_duplicates == SumSeq([k \in 1 .. envSize |-> Len(sets[k])])
             IN  /\ recvData' = [recvData EXCEPT ![p] = rd]
                 /\ merged_triples' = [merged_triples EXCEPT ![p] = merged]
                 /\ result_sets' = [result_sets EXCEPT ![p] = sets]
                 /\ any_local_dups' = [any_local_dups EXCEPT ![p] =
                                          IF num_duplicates > 0 THEN 1 ELSE 0]
    /\ Enter(p, "allreduce")
    /\ UNCHANGED << sortVars, unitVars, inputVars, results, localVars, any_dups, duplicates,
                    indicesOfAllDuplicates >>

\* the flag of the rank itself instead of the reduction over all ranks
allreduce_maxLocal(p) == any_local_dups[p]

\* mpi::allreduce_max(any_local_dups, env)
allreduce_max(p) ==
    IF \E q \in PEs : any_local_dups[q] > 0 THEN 1 ELSE 0

\* getSortedIndicesOfDuplicates and setDepth (lines 855-870)
Finish(p, remote) ==
    /\ duplicates' = [duplicates EXCEPT ![p] = remote]
    /\ indicesOfAllDuplicates' = [indicesOfAllDuplicates EXCEPT ![p] =
           getSortedIndicesOfDuplicates(local_duplicates[p], localLcpDuplicates[p],
                                        remote, hashStringIndices[p])]
    /\ results' = [results EXCEPT ![p] =
           setDepth(strings[p], depth, candidates[p], eosCandidates[p], @)]

\* the allreduce returns (line 431); the alltoallv of the duplicates is
\* entered only if any_dups (lines 433-436)
AfterAllreduce(p) ==
    /\ pc[p] = "allreduce"
    /\ AllEntered(p)
    /\ LET any == (0 # allreduce_max(p))
       IN  /\ any_dups' = [any_dups EXCEPT ![p] = any]
           /\ IF any
              THEN /\ Enter(p, "alltoallv_dups")
                   /\ UNCHANGED << results, duplicates, indicesOfAllDuplicates >>
              ELSE /\ Finish(p, << >>)
                   /\ pc' = [pc EXCEPT ![p] = "done"]
                   /\ UNCHANGED colls
    /\ UNCHANGED << sortVars, unitVars, inputVars, localVars, recvVars >>

\* GolombPolicy::alltoallv(send_buf, send_counts, ...) returns (line 435)
ReceiveDuplicates(p) ==
    /\ pc[p] = "alltoallv_dups"
    /\ AllEntered(p)
    /\ Finish(p, Concat([k \in 1 .. envSize |-> result_sets[k - 1][p + 1]]))
    /\ pc' = [pc EXCEPT ![p] = "done"]
    /\ UNCHANGED << sortVars, unitVars, inputVars, colls, localVars, recvVars, any_dups >>

Next ==
    \E p \in PEs :
        \/ GenerateAndSend(p)
        \/ ExchangeOffsets(p)
        \/ ExchangeCounts(p)
        \/ FindDuplicates(p)
        \/ AfterAllreduce(p)
        \/ ReceiveDuplicates(p)

Spec == Init /\ [][Next]_vars

(***************************************************************************)
(* Prefix doubling: the filter round is repeated with the returned list as *)
(* the candidates and the depth doubled, until no rank returns a           *)
(* duplicate.  The loop follows the design document (section 4.4); the     *)
(* round is BloomFilter::filter.                                           *)
(***************************************************************************)
AllIndices(ss) == [i \in 1 .. Len(ss) |-> i - 1]

\* the first round: depth d0, every local string is a candidate
InitDoubling ==
    /\ InitFilter
    /\ candidates = [p \in PEs |-> AllIndices(strings[p])]
    /\ SortIdle
    /\ UnitIdle

\* all ranks have returned from the round and some rank returned a
\* duplicate: candidates := the returned list, the depth is doubled
NextRound ==
    /\ \A p \in PEs : pc[p] = "done"
    /\ \E p \in PEs : indicesOfAllDuplicates[p] # << >>
    /\ round < MaxRounds
    /\ round' = round + 1
    /\ depth' = 2 * depth
    /\ candidates' = indicesOfAllDuplicates
    /\ pc' = [p \in PEs |-> "start"]
    /\ colls' = Empty
    /\ marked' = Empty
    /\ hashStringIndices' = Empty
    /\ local_duplicates' = Empty
    /\ localLcpDuplicates' = Empty
    /\ eosCandidates' = Empty
    /\ intervalSizes' = Empty
    /\ offsets' = Empty
    /\ recvData' = [p \in PEs |-> EmptyRecvData]
    /\ merged_triples' = Empty
    /\ result_sets' = Empty
    /\ any_local_dups' = [p \in PEs |-> 0]
    /\ any_dups' = [p \in PEs |-> FALSE]
    /\ duplicates' = Empty
    /\ indicesOfAllDuplicates' = Empty
    /\ UNCHANGED << sortVars, unitVars, envSize, seed, strings, lcps, results >>

NextDoubling ==
    \/ Next
    \/ NextRound

SpecDoubling == InitDoubling /\ [][NextDoubling]_vars

(***************************************************************************)
(* BloomFilter::filter without candidates: every local string is probed.   *)
(* generateHashStringIndices walks all indices; an index whose LCP reaches *)
(* the depth is a local LCP duplicate, and the element hashed last becomes *)
(* a root if it is the string just before.  hashStringIndices.back() on an *)
(* empty vector is recorded in `ub`.                                       *)
(***************************************************************************)
\* if (hashStringIndices.back().stringIndex + 1 == candidate) isLcpLocalRoot = true
MarkLcpLocalRootNever(data, candidate) == data

MarkLcpLocalRoot(data, candidate) ==
    IF data[Len(data)].stringIndex + 1 = candidate
    THEN SetBack(data, "isLcpLocalRoot", TRUE)
    ELSE data

GenStepAll(key, ss, d, lcp, candidate, acc) ==
    LET curString == ss[candidate + 1]
    IN  IF d > Len(curString)
        THEN [acc EXCEPT !.eosCandidates = Append(@, candidate)]
        ELSE IF lcp[candidate + 1] >= d
        THEN IF acc.data = << >>
             THEN [acc EXCEPT !.localDups = Append(@, candidate), !.ub = TRUE]
             ELSE [acc EXCEPT !.localDups = Append(@, candidate),
                              !.data = MarkLcpLocalRoot(@, candidate)]
        ELSE [acc EXCEPT !.data =
                  Append(@, HashStringIndex(Hash(key, curString, d), candidate))]

RECURSIVE GenLoopAll(_, _, _, _, _, _)
GenLoopAll(key, ss, d, lcp, candidate, acc) ==
    IF candidate >= Len(ss) THEN acc
    ELSE GenLoopAll(key, ss, d, lcp, candidate + 1,
                    GenStepAll(key, ss, d, lcp, candidate, acc))

generateHashStringIndicesAll(key, ss, d, lcp) ==
    GenLoopAll(key, ss, d, lcp, 0,
               [ data |-> << >>, localDups |-> << >>, eosCandidates |-> << >>,
                 ub |-> FALSE ])

setDepthAllNoEos(ss, d, eos, res) == [i \in 1 .. Len(res) |-> d]

\* BloomFilter::setDepth, the overload without candidates: std::fill, then
\* every EOS candidate gets its length
setDepthAll(ss, d, eos, res) ==
    [i \in 1 .. Len(res) |-> IF (i - 1) \in Range(eos) THEN Len(ss[i]) ELSE d]

\* the numbers of copies on the ranks: any numbers on up to two ranks, the
\* same number on every rank of a larger communicator
CopyCounts ==
    { count \in [PEs -> 0 .. MaxCopies] :
        envSize > 2 => \A p, q \in PEs : count[p] = count[q] }

\* every rank holds some copies of one string, possibly none
InitCopies ==
    /\ envSize \in CopyCommSizes
    /\ seed \in HashSeeds
    /\ depth \in 1 .. MaxDepth
    /\ round = 1
    /\ \E x \in StringUniverse :
         strings \in { [p \in PEs |-> [i \in 1 .. count[p] |-> x]] :
                         count \in CopyCounts }
    /\ lcps = [p \in PEs |-> LcpArray(strings[p])]
    /\ candidates = Empty
    /\ results = [p \in PEs |-> [i \in 1 .. Len(strings[p]) |-> 0]]
    /\ pc = [p \in PEs |-> "start"]
    /\ colls = Empty
    /\ marked = Empty
    /\ hashStringIndices = Empty
    /\ local_duplicates = Empty
    /\ localLcpDuplicates = Empty
    /\ eosCandidates = Empty
    /\ intervalSizes = Empty
    /\ offsets = Empty
    /\ recvData = [p \in PEs |-> EmptyRecvData]
    /\ merged_triples = Empty
    /\ result_sets = Empty
    /\ any_local_dups = [p \in PEs |-> 0]
    /\ any_dups = [p \in PEs |-> FALSE]
    /\ duplicates = Empty
    /\ indicesOfAllDuplicates = Empty
    /\ SortIdle
    /\ UnitIdle

\* lines 771-790 and sendToFilter up to the first alltoall (lines 310-320)
GenerateAndSendAll(p) ==
    /\ pc[p] = "start"
    /\ LET gen == generateHashStringIndicesAll(seed, strings[p], depth, lcps[p])
       IN  \E sorted \in SortOutcomes(gen.data) :
             LET ldi == localDuplicateIndices(sorted)
                 shipped == SelectSend(ldi.values)
                 sizes == computeIntervalSizes(get_hash(shipped),
                                               bloomFilterSize, envSize)
             IN  /\ marked' = [marked EXCEPT ![p] = ldi.values]
                 /\ local_duplicates' = [local_duplicates EXCEPT ![p] = ldi.dups]
                 /\ localLcpDuplicates' =
                        [localLcpDuplicates EXCEPT ![p] = gen.localDups]
                 /\ eosCandidates' = [eosCandidates EXCEPT ![p] = gen.eosCandidates]
                 /\ hashStringIndices' = [hashStringIndices EXCEPT ![p] = shipped]
                 /\ intervalSizes' = [intervalSizes EXCEPT ![p] = sizes]
                 /\ offsets' = [offsets EXCEPT ![p] = exclusive_scan(sizes)]
    /\ Enter(p, "alltoall_offsets")
    /\ UNCHANGED << sortVars, unitVars, inputVars, results, recvVars, any_dups, duplicates,
                    indicesOfAllDuplicates >>

\* getSortedIndicesOfDuplicates and setDepth (lines 798-812)
FinishAll(p, remote) ==
    /\ duplicates' = [duplicates EXCEPT ![p] = remote]
    /\ indicesOfAllDuplicates' = [indicesOfAllDuplicates EXCEPT ![p] =
           getSortedIndicesOfDuplicates(local_duplicates[p], localLcpDuplicates[p],
                                        remote, hashStringIndices[p])]
    /\ results' = [results EXCEPT ![p] =
           setDepthAll(strings[p], depth, eosCandidates[p], @)]

\* the allreduce returns (line 431); without a duplicate anywhere the round
\* ends here (lines 433-436)
AfterAllreduceAll(p) ==
    /\ pc[p] = "allreduce"
    /\ AllEntered(p)
    /\ LET any == (0 # allreduce_max(p))
       IN  /\ any_dups' = [any_dups EXCEPT ![p] = any]
           /\ IF any
              THEN /\ Enter(p, "alltoallv_dups")
                   /\ UNCHANGED << results, duplicates, indicesOfAllDuplicates >>
              ELSE /\ FinishAll(p, << >>)
                   /\ pc' = [pc EXCEPT ![p] = "done"]
                   /\ UNCHANGED colls
    /\ UNCHANGED << sortVars, unitVars, inputVars, localVars, recvVars >>

\* GolombPolicy::alltoallv(send_buf, send_counts, ...) returns (line 435)
ReceiveDuplicatesAll(p) ==
    /\ pc[p] = "alltoallv_dups"
    /\ AllEntered(p)
    /\ FinishAll(p, Concat([k \in 1 .. envSize |-> result_sets[k - 1][p + 1]]))
    /\ pc' = [pc EXCEPT ![p] = "done"]
    /\ UNCHANGED << sortVars, unitVars, inputVars, colls, localVars, recvVars, any_dups >>

NextCopies ==
    \E p \in PEs :
        \/ GenerateAndSendAll(p)
        \/ ExchangeOffsets(p)
        \/ ExchangeCounts(p)
        \/ FindDuplicates(p)
        \/ AfterAllreduceAll(p)
        \/ ReceiveDuplicatesAll(p)

SpecCopies == InitCopies /\ [][NextCopies]_vars

(***************************************************************************)
(* The multi-level merge sort driver (run_merge_sort and                   *)
(* DistributedMergeSort::sort).  The driver itself and the grid of         *)
(* sub-communicators follow the design document (sections 3, 4.5 and 4.7); *)
(* the handling of the level schedule and the steps of compute_partition   *)
(* follow the sources.                                                     *)
(***************************************************************************)
RECURSIVE SetToDescendingSeq(_)
SetToDescendingSeq(S) ==
    IF S = {} THEN << >>
    ELSE LET m == CHOOSE x \in S : \A y \in S : x >= y
         IN  << m >> \o SetToDescendingSeq(S \ {m})

\* args.levels: group sizes in strictly decreasing order
LevelSchedules == { SetToDescendingSeq(S) : S \in SUBSET LevelSizes }

\* std::find_if(levels.begin(), levels.end(), group_size < comm.size())
first_level(levels, size) ==
    IF \E i \in DOMAIN levels : levels[i] < size
    THEN CHOOSE i \in DOMAIN levels :
             /\ levels[i] < size
             /\ \A j \in 1 .. (i - 1) : ~(levels[j] < size)
    ELSE Len(levels) + 1

\* Subcommunicators comms{first_level, args.levels.end(), comm}: the sizes of
\* the communicators g_0 (all ranks), g_1, ...
GridSizes(levels, size) ==
    << size >> \o SubSeq(levels, first_level(levels, size), Len(levels))

colourStrided(rank, group_size, comm_size) == rank % (comm_size \div group_size)

\* g_k colours g_(k-1) into |g_(k-1)| / l_k groups of l_k consecutive ranks
colour(rank, group_size, comm_size) == rank \div group_size

RECURSIVE SameComm(_, _, _, _), CommRank(_, _, _)
\* ranks q and r are in one communicator of level k
SameComm(sizes, q, r, k) ==
    IF k = 1 THEN TRUE
    ELSE /\ SameComm(sizes, q, r, k - 1)
         /\ colour(CommRank(sizes, q, k - 1), sizes[k], sizes[k - 1])
              = colour(CommRank(sizes, r, k - 1), sizes[k], sizes[k - 1])

\* the rank of r in its communicator of level k
CommRank(sizes, r, k) ==
    Cardinality({ q \in PEs : q < r /\ SameComm(sizes, q, r, k) })

\* the communicators of level k: for every rank of the root communicator the
\* rank 0 of its communicator, and its own rank in it
Communicators(sizes, k) ==
    [ size |-> sizes[k],
      root |-> [r \in PEs |->
                  CHOOSE q \in PEs :
                      SameComm(sizes, q, r, k) /\ CommRank(sizes, q, k) = 0],
      rank |-> [r \in PEs |-> CommRank(sizes, r, k)] ]

\* Subcommunicators comms{first_level, args.levels.end(), comm}
NaiveSplit(levels, size) ==
    LET sizes == GridSizes(levels, size)
    IN  [k \in 1 .. Len(sizes) |-> Communicators(sizes, k)]

\* the ranks of the communicator rank r is in at the current level
Comm(r) == { q \in PEs : grid[level].root[q] = grid[level].root[r] }

CommRoots == { grid[level].root[r] : r \in PEs }

\* local_sort(container)
RECURSIVE InsertString(_, _)
InsertString(x, s) ==
    IF s = << >> THEN << x >>
    ELSE IF StrLeq(x, Head(s)) THEN << x >> \o s
    ELSE << Head(s) >> \o InsertString(x, Tail(s))

RECURSIVE local_sort(_)
local_sort(s) ==
    IF s = << >> THEN << >> ELSE InsertString(Head(s), local_sort(Tail(s)))

\* getSplitters(sortedLocalSample, num_partitions, comm): num_partitions - 1
\* splitters in sorted order out of the sample of the communicator's strings;
\* every sample the four sampling policies can draw is covered
getSplitters(sample, num_partitions) ==
    IF sample = {} THEN { << >> }
    ELSE { sp \in [1 .. (num_partitions - 1) -> sample] : IsSortedStrings(sp) }

\* the receiver of a string: binary search against the splitters
Receiver(x, sp) == Cardinality({ j \in DOMAIN sp : StrLess(sp[j], x) })

\* compute_interval_binary(ss, chosen_splitters_set, comm)
compute_interval_binary(ss, sp, num_partitions) ==
    [ j \in 1 .. num_partitions |->
        Cardinality({ i \in DOMAIN ss : Receiver(ss[i], sp) = j - 1 }) ]

\* the slice of a sender's container that goes to the receiver with rank j - 1
SendSlice(cont, counts, j) ==
    LET first == SumSeq(SubSeq(counts, 1, j - 1))
    IN  SubSeq(cont, first + 1, first + counts[j])

RECURSIVE Runs(_, _)
Runs(cont, counts) ==
    IF counts = << >> THEN << >>
    ELSE << SubSeq(cont, 1, Head(counts)) >>
           \o Runs(SubSeq(cont, Head(counts) + 1, Len(cont)), Tail(counts))

RECURSIVE MergeStrings(_, _)
MergeStrings(a, b) ==
    IF a = << >> THEN b
    ELSE IF b = << >> THEN a
    ELSE IF StrLeq(Head(a), Head(b))
    THEN << Head(a) >> \o MergeStrings(Tail(a), b)
    ELSE << Head(b) >> \o MergeStrings(a, Tail(b))

RECURSIVE MergeRuns(_)
MergeRuns(runs) ==
    IF runs = << >> THEN << >>
    ELSE MergeStrings(Head(runs), MergeRuns(Tail(runs)))

RECURSIVE DropRepeated(_)
DropRepeated(s) ==
    IF Len(s) <= 1 THEN s
    ELSE IF s[1] = s[2] THEN DropRepeated(Tail(s))
    ELSE << Head(s) >> \o DropRepeated(Tail(s))

multiway_mergeUnique(cont, counts) == DropRepeated(MergeRuns(Runs(cont, counts)))

\* multiway_merge(container, counts)
multiway_merge(cont, counts) == MergeRuns(Runs(cont, counts))

\* the strings of `all` that rank p generates
InputOf(all, owner, p) ==
    LET idx == { i \in DOMAIN all : owner[i] = p }
    IN  IF idx = {} THEN << >>
        ELSE SubSeq(all, CHOOSE i \in idx : \A j \in idx : i <= j,
                         CHOOSE i \in idx : \A j \in idx : i >= j)

\* the filter round is not running
FilterIdle ==
    /\ seed = 1
    /\ depth = 1
    /\ round = 0
    /\ strings = Empty
    /\ lcps = Empty
    /\ candidates = Empty
    /\ results = Empty
    /\ pc = [p \in PEs |-> "idle"]
    /\ colls = Empty
    /\ marked = Empty
    /\ hashStringIndices = Empty
    /\ local_duplicates = Empty
    /\ localLcpDuplicates = Empty
    /\ eosCandidates = Empty
    /\ intervalSizes = Empty
    /\ offsets = Empty
    /\ recvData = [p \in PEs |-> EmptyRecvData]
    /\ merged_triples = Empty
    /\ result_sets = Empty
    /\ any_local_dups = [p \in PEs |-> 0]
    /\ any_dups = [p \in PEs |-> FALSE]
    /\ duplicates = Empty
    /\ indicesOfAllDuplicates = Empty

\* run_merge_sort up to the call of merge_sort.sort: every rank holds the
\* strings it generated, in any order; a rank may hold none
InitSort ==
    /\ envSize \in SortCommSizes
    /\ \E all \in SeqsUpTo(SortUniverse, MaxSortStrings) :
         \E owner \in { o \in [DOMAIN all -> PEs] :
                          \A i, j \in DOMAIN all : i <= j => o[i] <= o[j] } :
             input = [p \in PEs |-> InputOf(all, owner, p)]
    /\ container = input
    /\ \E levels \in LevelSchedules : grid = NaiveSplit(levels, envSize)
    /\ level = 1
    /\ sortPc = "local_sort"
    /\ splitters = Empty
    /\ interval_sizes = Empty
    /\ recv_counts = Empty
    /\ FilterIdle
    /\ UnitIdle

\* The ranks share no state outside the collectives, so the steps of
\* different ranks commute: each step of the driver is taken by all ranks at
\* once, on every communicator of the level.

\* local_sort(container)
LocalSort ==
    /\ sortPc = "local_sort"
    /\ container' = [r \in PEs |-> local_sort(container[r])]
    /\ sortPc' = "sample"
    /\ UNCHANGED << filterVars, unitVars, input, grid, level, splitters,
                    interval_sizes, recv_counts >>

\* the strings held by the communicator of r
SampleOf(r) == UNION { Range(container[q]) : q \in Comm(r) }

\* splitters = sample_and_sort(container, grid[k]): sample_splitters,
\* splitterSort and getSplitters, collective over every communicator of the
\* level; the ranks of a communicator get the same splitters
SampleAndSort ==
    /\ sortPc = "sample"
    /\ \E chosen \in [CommRoots ->
                        UNION { getSplitters(SampleOf(r), grid[level].size) :
                                  r \in CommRoots }] :
         /\ \A r \in CommRoots :
                chosen[r] \in getSplitters(SampleOf(r), grid[level].size)
         /\ splitters' = [q \in PEs |-> chosen[grid[level].root[q]]]
    /\ sortPc' = "partition"
    /\ UNCHANGED << filterVars, unitVars, input, container, grid, level,
                    interval_sizes, recv_counts >>

\* counts = partition(container, splitters, grid[k])
Partition ==
    /\ sortPc = "partition"
    /\ interval_sizes' = [r \in PEs |->
           compute_interval_binary(container[r], splitters[r], grid[level].size)]
    /\ sortPc' = "alltoall"
    /\ UNCHANGED << filterVars, unitVars, input, container, grid, level,
                    splitters, recv_counts >>

\* the run that rank q receives from the rank with rank i - 1 of its
\* communicator
RecvRun(q, i) ==
    LET from == CHOOSE s \in Comm(q) : grid[level].rank[s] = i - 1
    IN  SendSlice(container[from], interval_sizes[from], grid[level].rank[q] + 1)

\* container = alltoall_strings(container, counts, grid[k]): every rank
\* receives one run from every rank of its communicator
AlltoallStrings ==
    /\ sortPc = "alltoall"
    /\ container' = [q \in PEs |->
           Concat([i \in 1 .. Cardinality(Comm(q)) |-> RecvRun(q, i)])]
    /\ recv_counts' = [q \in PEs |->
           [i \in 1 .. Cardinality(Comm(q)) |-> Len(RecvRun(q, i))]]
    /\ sortPc' = "merge"
    /\ UNCHANGED << filterVars, unitVars, input, grid, level, splitters,
                    interval_sizes >>

\* container = multiway_merge(container, counts); then the next level, or
\* return container
MultiwayMerge ==
    /\ sortPc = "merge"
    /\ container' = [r \in PEs |-> multiway_merge(container[r], recv_counts[r])]
    /\ IF level < Len(grid)
       THEN /\ level' = level + 1
            /\ sortPc' = "local_sort"
       ELSE /\ sortPc' = "done"
            /\ UNCHANGED level
    /\ UNCHANGED << filterVars, unitVars, input, grid, splitters,
                    interval_sizes, recv_counts >>

NextSort ==
    \/ LocalSort
    \/ SampleAndSort
    \/ Partition
    \/ AlltoallStrings
    \/ MultiwayMerge

SpecSort == InitSort /\ [][NextSort]_vars

(***************************************************************************)
(* computeIntervalSizes and the offsets of sendToFilter, on any sorted     *)
(* list of hash values and any communicator size.                          *)
(***************************************************************************)
IsSortedNat(s) == \A i \in 1 .. (Len(s) - 1) : s[i] <= s[i + 1]

\* sorted lists of hash values: the hashers return digest % bloomFilterSize
SortedHashLists ==
    { h \in SeqsUpTo(0 .. (bloomFilterSize - 1), MaxHashes) : IsSortedNat(h) }

InitIntervals ==
    /\ envSize \in IntervalCommSizes
    /\ call \in [ op : { "computeIntervalSizes" }, hashes : SortedHashLists ]
    /\ ret = << >>
    /\ obj = << >>
    /\ nops = 0
    /\ FilterIdle
    /\ SortIdle

\* sendToFilter, lines 314-318
ComputeIntervals ==
    /\ call.op = "computeIntervalSizes"
    /\ ret = << >>
    /\ LET sizes == computeIntervalSizes(call.hashes, bloomFilterSize, envSize)
       IN  ret' = << sizes, exclusive_scan(sizes) >>
    /\ UNCHANGED << filterVars, sortVars, call, obj, nops >>

SpecIntervals == InitIntervals /\ [][ComputeIntervals]_vars

(***************************************************************************)
(* StringLcpContainer: a char arena, descriptors into it and an lcp array. *)
(* A descriptor's pointer is the offset of its first char from the start   *)
(* of the arena the container owns at the moment; an offset outside        *)
(* 0 .. size - 1 is a pointer outside the arena.                           *)
(***************************************************************************)
Chars == { 1, 2 }

Bytes == { 0 } \cup Chars

NullPtr == 0 - 1

String(ptr, len) == [string |-> ptr, length |-> len]

Container(raw, strs, l) == [raw_strings |-> raw, strings |-> strs, lcps |-> l]

Zeros(n) == [i \in 1 .. n |-> 0]

\* a raw buffer of null-terminated strings
RECURSIVE Terminated(_)
Terminated(ss) ==
    IF Len(ss) = 0 THEN << >> ELSE Head(ss) \o << 0 >> \o Terminated(Tail(ss))

TailStrings == SeqsUpTo(Chars, MaxTailLen)

RawBuffers == { Terminated(ss) : ss \in SeqsUpTo(TailStrings, MaxContStrings) }

\* the buffers handed to update
UpdateBuffers == { Terminated(ss) : ss \in SeqsUpTo(TailStrings, MaxUpdateStrings) }

\* descriptor vectors a caller hands over: into the arena, at its end, null
DescriptorLists ==
    SeqsUpTo({ String(p, n) : p \in { NullPtr, 0, 1 }, n \in 0 .. MaxTailLen }, 1)

\* the buffers handed over together with an lcp array
SmallBuffers == { Terminated(ss) : ss \in SeqsUpTo(TailStrings, 1) }

LcpLists == { Zeros(n) : n \in 0 .. MaxUpdateStrings }

\* the while loop of init_strings_impl: the position of the next 0 byte
RECURSIVE ScanZero(_, _)
ScanZero(raw, pos) ==
    IF pos > Len(raw) \/ raw[pos] = 0 THEN pos ELSE ScanZero(raw, pos + 1)

RECURSIVE init_strings_impl(_, _, _)
init_strings_impl(raw, char_it, d_str) ==
    IF char_it > Len(raw) THEN d_str
    ELSE LET str_end == ScanZero(raw, char_it)
         IN  init_strings_impl(raw, str_end + 1,
                               Append(d_str, String(char_it - 1, str_end - char_it)))

init_strings(raw) == init_strings_impl(raw, 1, << >>)

\* the byte a pointer refers to; junk when the pointer is outside the arena
ReadByte(raw, off, junk) ==
    IF 0 <= off /\ off < Len(raw) THEN raw[off + 1] ELSE junk

ReadBytes(raw, off, n, junk) == [k \in 1 .. n |-> ReadByte(raw, off + k - 1, junk)]

\* the bytes written at offset off; a write behind the buffer is not kept
WriteBytes(buf, off, bytes) ==
    [k \in 1 .. Len(buf) |->
        IF off < k /\ k <= off + Len(bytes) THEN bytes[k - off] ELSE buf[k]]

\* memcpy inside one buffer, byte by byte from the front
RECURSIVE CopyForward(_, _, _, _)
CopyForward(buf, src, dst, n) ==
    IF n = 0 THEN buf
    ELSE CopyForward(WriteBytes(buf, dst, << ReadByte(buf, src, 0) >>),
                     src + 1, dst + 1, n - 1)

\* memcpy inside one buffer; with overlapping ranges the result depends on
\* the direction of the copy
memcpy(buf, src, dst, n, fwd) ==
    IF fwd /\ src # dst THEN CopyForward(buf, src, dst, n)
    ELSE WriteBytes(buf, dst, ReadBytes(buf, src, n, 0))

\* StringSet::get_sum_length
RECURSIVE get_sum_length(_)
get_sum_length(strs) ==
    IF Len(strs) = 0 THEN 0 ELSE Head(strs).length + get_sum_length(Tail(strs))

NextDestNoTerminator(dest, length) == dest + length

\* dest += (length + 1)
NextDest(dest, length) == dest + (length + 1)

RECURSIVE make_contiguous_loop(_, _, _, _, _, _)
make_contiguous_loop(c, i, dest, char_buffer, strs, junk) ==
    IF i > Len(c.strings) THEN Container(char_buffer, strs, c.lcps)
    ELSE LET str == c.strings[i]
             length == str.length
             copied == WriteBytes(char_buffer, dest,
                                  ReadBytes(c.raw_strings, str.string, length, junk))
             closed == WriteBytes(copied, dest + length, << 0 >>)
         IN  make_contiguous_loop(c, i + 1, NextDest(dest, length), closed,
                                  Append(strs, String(dest, length)), junk)

make_contiguous(c, junk) ==
    make_contiguous_loop(c, 1, 0,
                         Zeros(get_sum_length(c.strings) + Len(c.strings)),
                         << >>, junk)

is_consistent(c) ==
    \A i \in DOMAIN c.strings :
        /\ 0 <= c.strings[i].string
        /\ c.strings[i].string + c.strings[i].length <= Len(c.raw_strings)

PrevCharsFirst(prev_chars, curr_chars) == prev_chars

\* std::exchange(prev_chars, curr_chars): the value prev_chars has afterwards
PrevChars(prev_chars, curr_chars) == curr_chars

RECURSIVE extend_prefix_loop(_, _, _, _, _, _, _, _, _)
extend_prefix_loop(c, new_lcps, i, prev_chars, curr_chars, raw, strs, junk, fwd) ==
    IF i > Len(c.strings)
    THEN [ cont |-> Container(SubSeq(raw, 1, Min(curr_chars, Len(raw))), strs, c.lcps),
           overflow |-> curr_chars > Len(raw) ]
    ELSE LET curr_str == c.strings[i]
             curr_lcp == IF i <= Len(new_lcps) THEN new_lcps[i] ELSE junk
             curr_str_len == curr_str.length + 1
             prefixed == memcpy(raw, prev_chars, curr_chars, curr_lcp, fwd)
             whole == WriteBytes(prefixed, curr_chars + curr_lcp,
                                 ReadBytes(c.raw_strings, curr_str.string,
                                           curr_str_len, junk))
         IN  extend_prefix_loop(c, new_lcps, i + 1,
                                PrevChars(prev_chars, curr_chars),
                                curr_chars + curr_lcp + curr_str_len, whole,
                                Append(strs, String(curr_chars, curr_str_len + curr_lcp - 1)),
                                junk, fwd)

extend_prefix(c, new_lcps, junk, fwd) ==
    extend_prefix_loop(c, new_lcps, 1, 0, 0,
                       Zeros(Len(c.raw_strings) + SumSeq(new_lcps)), << >>, junk, fwd)

\* the assertions of extend_prefix, lines 304, 305 and 316
extend_prefix_asserts(c, new_lcps) ==
    /\ Len(new_lcps) = Len(c.strings)
    /\ IF Len(new_lcps) = 0 THEN TRUE ELSE new_lcps[1] = 0
    /\ \A i \in DOMAIN c.strings :
           ReadByte(c.raw_strings, c.strings[i].string + c.strings[i].length, 1) = 0

resize_stringsBase(c, count) ==
    Container(c.raw_strings,
              [i \in 1 .. count |-> IF i <= Len(c.strings) THEN c.strings[i]
                                    ELSE String(NullPtr, 0)],
              c.lcps)

\* StringLcpContainer::resize_strings
resize_strings(c, count) ==
    Container(c.raw_strings,
              [i \in 1 .. count |-> IF i <= Len(c.strings) THEN c.strings[i]
                                    ELSE String(NullPtr, 0)],
              [i \in 1 .. count |-> IF i <= Len(c.lcps) THEN c.lcps[i] ELSE 0])

\* StringLcpContainer::update without an lcps vector
update(c, raw) ==
    LET strs == init_strings(raw)
    IN  Container(raw, strs,
                  [i \in 1 .. Len(strs) |-> IF i <= Len(c.lcps) THEN c.lcps[i] ELSE 0])

\* StringLcpContainer::update with an lcps vector
update_lcps(c, raw, l) == Container(raw, init_strings(raw), l)

\* StringLcpContainer()
EmptyContainer == Container(<< >>, << >>, << >>)

\* the containers a constructor returns, with the constructor's arguments
Constructed ==
    { << "StringLcpContainer()", << >>, EmptyContainer >> }
    \cup { << "StringLcpContainer(count)", count,
              Container(<< >>, [i \in 1 .. count |-> String(NullPtr, 0)], Zeros(count)) >> :
           count \in 1 .. MaxUpdateStrings }
    \cup { << "StringLcpContainer(raw, strings, lcps)", << raw, strs, l >>,
              Container(raw, strs, l) >> :
           raw \in { << 1, 0 >> }, strs \in DescriptorLists, l \in LcpLists }
    \cup { << "StringLcpContainer(raw, strings)", << raw, strs >>,
              Container(raw, strs, Zeros(Len(strs))) >> :
           raw \in { << 1, 0 >> }, strs \in DescriptorLists }
    \cup { << "StringLcpContainer(raw, init)", raw,
              Container(raw, init_strings(raw), Zeros(Len(init_strings(raw)))) >> :
           raw \in RawBuffers }
    \cup { << "StringLcpContainer(raw, lcps, init)", << raw, l >>,
              Container(raw, init_strings(raw), l) >> :
           raw \in SmallBuffers, l \in LcpLists }

\* what a false assertion leads to: the abort of a build with assertions, or
\* nothing at all in a build with NDEBUG, which every later call then has too
Asserted(holds, outcome) ==
    \/ holds /\ outcome = ret
    \/ ~holds /\ ret = "ok" /\ outcome = "abort"
    \/ ~holds /\ outcome = "unchecked"

InitContainer ==
    /\ \E k \in Constructed :
        /\ call = [op |-> k[1], arg |-> k[2], pre |-> EmptyContainer]
        /\ obj = k[3]
        /\ \/ ret = "ok"
           \/ /\ k[1] = "StringLcpContainer(raw, lcps, init)"
              /\ Len(k[3].strings) # Len(k[3].lcps)
              /\ ret \in { "abort", "unchecked" }
        /\ k[1] = "StringLcpContainer(raw, lcps, init)" /\ ret = "ok"
               => Len(k[3].strings) = Len(k[3].lcps)
    /\ nops = 0
    /\ envSize = 1
    /\ FilterIdle
    /\ SortIdle

\* the container exists and its process runs
Live == ret \in { "ok", "unchecked" } /\ nops < MaxOps

\* one public operation took the container from obj to c
Called(name, arg, c, outcome) ==
    /\ call' = [op |-> name, arg |-> arg, pre |-> obj]
    /\ obj' = c
    /\ ret' = outcome
    /\ nops' = nops + 1
    /\ UNCHANGED << filterVars, sortVars >>

\* every descriptor and its terminator are inside the arena
AllInside(c) ==
    \A i \in DOMAIN c.strings :
        /\ 0 <= c.strings[i].string
        /\ c.strings[i].string + c.strings[i].length < Len(c.raw_strings)

\* what a read outside the arena may return
Junk(c) == IF AllInside(c) THEN { 0 } ELSE Bytes

IndexPermutations(n) == { f \in [1 .. n -> 1 .. n] : \A i, j \in 1 .. n : f[i] = f[j] => i = j }

\* the caller reorders the descriptors (get_strings(), sorters)
Rearrange ==
    /\ Live
    /\ \E f \in IndexPermutations(Len(obj.strings)) :
           Called("rearrange", f,
                  [obj EXCEPT !.strings = [i \in DOMAIN f |-> obj.strings[f[i]]]], ret)

MakeContiguous ==
    /\ Live
    /\ \E junk \in Junk(obj) :
           Called("make_contiguous", << >>, make_contiguous(obj, junk), ret)

\* the lcps handed to extend_prefix: every array of the right length, and
\* arrays one too short and one too long
ExtendArgs(c) ==
    { l \in SeqsUpTo(0 .. MaxLcp, MaxContStrings + 1) :
        \/ Len(l) = Len(c.strings)
        \/ Len(l) \in { Len(c.strings) - 1, Len(c.strings) + 1 } /\ l = Zeros(Len(l)) }

\* some memcpy of extend_prefix copies between overlapping ranges
Overlapping(c, new_lcps) ==
    \E i \in 2 .. Min(Len(c.strings), Len(new_lcps)) :
        new_lcps[i] > c.strings[i - 1].length + new_lcps[i - 1] + 1

ExtendPrefix ==
    /\ Live
    /\ \E new_lcps \in ExtendArgs(obj) :
       \E fwd \in (IF Overlapping(obj, new_lcps) THEN BOOLEAN ELSE { FALSE }) :
       \E junk \in (IF Len(new_lcps) < Len(obj.strings) THEN Bytes ELSE Junk(obj)) :
       \E outcome \in { "ok", "unchecked", "abort" } :
           LET r == extend_prefix(obj, new_lcps, junk, fwd)
           IN  /\ Asserted(extend_prefix_asserts(obj, new_lcps), outcome)
               /\ Called("extend_prefix", new_lcps,
                         IF outcome = "abort" \/ r.overflow THEN obj ELSE r.cont,
                         IF outcome # "abort" /\ r.overflow THEN "overflow" ELSE outcome)

Update ==
    /\ Live
    /\ \E raw \in UpdateBuffers : Called("update(raw)", raw, update(obj, raw), ret)

UpdateLcps ==
    /\ Live
    /\ \E raw \in SmallBuffers, l \in LcpLists :
           Called("update(raw, lcps)", << raw, l >>, update_lcps(obj, raw, l), ret)

SetStrings ==
    /\ Live
    /\ \E strs \in DescriptorLists :
           Called("set(strings)", strs, [obj EXCEPT !.strings = strs], ret)

SetLcps ==
    /\ Live
    /\ \E l \in LcpLists : Called("set(lcps)", l, [obj EXCEPT !.lcps = l], ret)

ResizeStrings ==
    /\ Live
    /\ \E count \in 0 .. MaxUpdateStrings :
           Called("resize_strings", count, resize_strings(obj, count), ret)

DeleteStrings ==
    /\ Live
    /\ Called("delete_strings", << >>, [obj EXCEPT !.strings = << >>], ret)

DeleteLcps ==
    /\ Live
    /\ Called("delete_lcps", << >>, [obj EXCEPT !.lcps = << >>], ret)

\* the caller moves the vector out, or only looks at it
ReleaseStrings ==
    /\ Live
    /\ \E left \in { << >>, obj.strings } :
           Called("release_strings", << >>, [obj EXCEPT !.strings = left], ret)

ReleaseLcps ==
    /\ Live
    /\ \E left \in { << >>, obj.lcps } :
           Called("release_lcps", << >>, [obj EXCEPT !.lcps = left], ret)

\* swap with a container just constructed
Swap ==
    /\ Live
    /\ \E k \in Constructed :
        /\ k[1] \in { "StringLcpContainer()", "StringLcpContainer(count)" }
        /\ Called("swap", k[3], k[3], ret)

NextContainer ==
    \/ Rearrange
    \/ MakeContiguous
    \/ ExtendPrefix
    \/ Update
    \/ UpdateLcps
    \/ SetStrings
    \/ SetLcps
    \/ ResizeStrings
    \/ DeleteStrings
    \/ DeleteLcps
    \/ ReleaseStrings
    \/ ReleaseLcps
    \/ Swap

SpecContainer == InitContainer /\ [][NextContainer]_vars

(***************************************************************************)
(* AllToAllHashesGolomb::alltoallv: every rank packs each non-empty        *)
(* interval into a packet, the packets are exchanged as words, and every   *)
(* rank unpacks the packets it has received.                               *)
(***************************************************************************)
Max(a, b) == IF a > b THEN a ELSE b

\* the Golomb parameter for n values from a universe U:
\* max(1, round(U * ln 2 / n)), with 693 / 1000 for ln 2
getB(U, n) == Max(1, (2 * U * 693 + n * 1000) \div (2 * n * 1000))

\* the value the hash overload puts in the place of b = 1 (20000000000 in
\* the source, here scaled to the word of the model)
DenseB == 2 * WordMod

\* the smallest b of the overload for the duplicates
MinGolombB == 8

bFromBookHashesPlain(filterSize, size, intervalSize) == getB(filterSize \div size, intervalSize)

\* lines 170-172
bFromBookHashes(filterSize, size, intervalSize) ==
    LET bFromBook == getB(filterSize \div size, intervalSize)
    IN  IF bFromBook = 1 THEN DenseB ELSE bFromBook

bFromBookDuplicatesPlain(intervalMax, intervalSize) == getB(intervalMax, intervalSize)

\* lines 242-244
bFromBookDuplicates(intervalMax, intervalSize) ==
    LET bFromBook == getB(intervalMax, intervalSize)
    IN  IF bFromBook < MinGolombB THEN MinGolombB ELSE bFromBook

\* the number of bits of a remainder modulo b
RECURSIVE RemainderBits(_, _)
RemainderBits(b, w) == IF 2 ^ w >= b THEN w ELSE RemainderBits(b, w + 1)

ToBits(x, w) == [i \in 1 .. w |-> (x \div (2 ^ (w - i))) % 2]

RECURSIVE FromBits(_)
FromBits(bits) ==
    IF Len(bits) = 0 THEN 0
    ELSE 2 * FromBits(SubSeq(bits, 1, Len(bits) - 1)) + bits[Len(bits)]

\* the Golomb code of x: the quotient in unary, a 0, the remainder in binary
GolombCode(x, b) ==
    [i \in 1 .. (x \div b) |-> 1] \o << 0 >> \o ToBits(x % b, RemainderBits(b, 0))

\* the bits as words, the last word filled up with 1 bits
PackWords(bits) ==
    LET nwords == (Len(bits) + WordBits - 1) \div WordBits
        padded == bits \o [i \in 1 .. (nwords * WordBits - Len(bits)) |-> 1]
    IN  [k \in 1 .. nwords |->
            FromBits(SubSeq(padded, (k - 1) * WordBits + 1, k * WordBits))]

UnpackWords(words) == Concat([k \in 1 .. Len(words) |-> ToBits(words[k], WordBits)])

\* the deltas of a sorted sequence, Golomb-coded with b
getDeltaEncoding(values, b) ==
    PackWords(Concat([i \in 1 .. Len(values) |->
                        GolombCode(IF i = 1 THEN values[1]
                                   ELSE values[i] - values[i - 1], b)]))

RECURSIVE CountOnes(_, _)
CountOnes(bits, pos) ==
    IF pos > Len(bits) \/ bits[pos] = 0 THEN 0 ELSE 1 + CountOnes(bits, pos + 1)

RECURSIVE DecodeBits(_, _, _, _, _)
DecodeBits(bits, pos, b, prev, out) ==
    LET q == CountOnes(bits, pos)
        w == RemainderBits(b, 0)
        zero == pos + q
    IN  IF zero + w > Len(bits) THEN out
        ELSE LET value == prev + q * b + FromBits(SubSeq(bits, zero + 1, zero + w))
             IN  DecodeBits(bits, zero + w + 1, b, value, Append(out, value))

getDeltaDecoding(words, b) == DecodeBits(UnpackWords(words), 1, b, 0, << >>)

\* the parameter the overload of the call gives an interval of n values
B(n) ==
    IF call.overload = "hashes" THEN bFromBookHashes(bloomFilterSize, envSize, n)
    ELSE bFromBookDuplicates(n + call.slack, n)

\* the encoder loop of alltoallv, lines 162-181 and 232-253
RECURSIVE golomb_encode(_, _, _, _, _, _)
golomb_encode(sendData, sizes, j, begin, encodedValues, encodedValuesSizes) ==
    IF j > Len(sizes)
    THEN [ encodedValues |-> encodedValues, encodedValuesSizes |-> encodedValuesSizes ]
    ELSE LET intervalSize == sizes[j]
             bFromBook == B(intervalSize)
             stream == getDeltaEncoding(SubSeq(sendData, begin, begin + intervalSize - 1),
                                        bFromBook)
             sizeEncodedValues == 2 + Len(stream)
         IN  IF intervalSize = 0
             THEN golomb_encode(sendData, sizes, j + 1, begin, encodedValues,
                                Append(encodedValuesSizes, 0))
             ELSE golomb_encode(sendData, sizes, j + 1, begin + intervalSize,
                                encodedValues \o << sizeEncodedValues - 1, bFromBook >>
                                              \o stream,
                                Append(encodedValuesSizes, sizeEncodedValues))

PacketEndShort(curDecodeIt, encodedIntervalSizes) == curDecodeIt + encodedIntervalSizes

\* end = curDecodeIt + encodedIntervalSizes, after curDecodeIt++ (lines 204-205)
PacketEnd(curDecodeIt, encodedIntervalSizes) == (curDecodeIt + 1) + encodedIntervalSizes

\* the decoder loop of alltoallv, lines 203-209 and 263-269
RECURSIVE golomb_decode(_, _, _, _, _)
golomb_decode(recv, size, i, curDecodeIt, decodedValues) ==
    IF ~(i < size /\ curDecodeIt <= Len(recv))
    THEN [ decodedValues |-> decodedValues, curDecodeIt |-> curDecodeIt, packets |-> i ]
    ELSE LET encodedIntervalSizes == recv[curDecodeIt]
             end == PacketEnd(curDecodeIt, encodedIntervalSizes)
             bFromBook == recv[curDecodeIt + 1]
         IN  golomb_decode(recv, size, i + 1, end,
                           decodedValues \o
                               getDeltaDecoding(SubSeq(recv, curDecodeIt + 2, end - 1),
                                                bFromBook))

\* the values of the intervals
GolombValues == { 0, bloomFilterSize - 2 }

SortedIntervals ==
    { s \in SeqsUpTo(GolombValues, MaxIntervalLen) : IsSortedNat(s) }

\* what the ranges of the duplicates' intervals exceed their sizes by
RangeSlack == { 0, 12 }

InitGolomb ==
    /\ envSize \in CommSizes
    /\ \E intervals \in [PEs -> [1 .. envSize -> SortedIntervals]],
          o \in { << "hashes", 0 >> } \cup { << "duplicates", s >> : s \in RangeSlack } :
           call = [ op |-> "alltoallv",
                    overload |-> o[1],
                    slack |-> o[2],
                    sendData |-> [p \in PEs |-> Concat(intervals[p])],
                    intervalSizes |-> [p \in PEs |->
                                          [j \in 1 .. envSize |-> Len(intervals[p][j])]] ]
    /\ ret = << >>
    /\ obj = << >>
    /\ nops = 0
    /\ FilterIdle
    /\ SortIdle

\* every rank has encoded its intervals (lines 162-181, 232-253)
GolombEncode ==
    /\ call.op = "alltoallv"
    /\ ret = << >>
    /\ ret' = [ stage |-> "encoded",
                encoded |-> [p \in PEs |->
                    golomb_encode(call.sendData[p], call.intervalSizes[p],
                                  1, 1, << >>, << >>)] ]
    /\ UNCHANGED << filterVars, sortVars, call, obj, nops >>

\* AllToAllv::alltoallv(encodedValues.data(), encodedValuesSizes, env)
GolombExchange ==
    /\ call.op = "alltoallv"
    /\ ret # << >>
    /\ ret.stage = "encoded"
    /\ ret' = [ stage |-> "exchanged",
                encoded |-> ret.encoded,
                recvEncodedValues |-> [p \in PEs |->
                    alltoallv([q \in PEs |-> ret.encoded[q].encodedValues],
                              [q \in PEs |-> ret.encoded[q].encodedValuesSizes], p)] ]
    /\ UNCHANGED << filterVars, sortVars, call, obj, nops >>

\* every rank has decoded what it received (lines 199-211, 259-271)
GolombDecode ==
    /\ call.op = "alltoallv"
    /\ ret # << >>
    /\ ret.stage = "exchanged"
    /\ ret' = [ stage |-> "decoded",
                encoded |-> ret.encoded,
                recvEncodedValues |-> ret.recvEncodedValues,
                decoded |-> [p \in PEs |->
                    golomb_decode(ret.recvEncodedValues[p], envSize, 0, 1, << >>)] ]
    /\ UNCHANGED << filterVars, sortVars, call, obj, nops >>

NextGolomb ==
    \/ GolombEncode
    \/ GolombExchange
    \/ GolombDecode

SpecGolomb == InitGolomb /\ [][NextGolomb]_vars

(***************************************************************************)
(* distributed_sorter: main parses the command line, checks the level      *)
(* schedule and runs num_iterations sorts through the dispatchers          *)
(* arg1 .. arg7.  tlx_die prints its message and aborts the process.       *)
(***************************************************************************)
\* values of the enum parameters: the default and one that is not implemented
Generators == { 0, 1 }
AlltoallRoutines == { 0, 2 }
GolombEncodings == { 0, 2 }

greater(a, b) == a > b

\* std::greater_equal<>{}
greater_equal(a, b) == a >= b

\* std::is_sorted(first, last, comp): no element with comp(next, previous)
is_sorted(range) ==
    \A i \in 1 .. (Len(range) - 1) : ~greater_equal(range[i + 1], range[i])

\* std::transform(levels_param, levels, stoi) into a std::vector<size_t>
stoi_levels(levels_param) ==
    [i \in 1 .. Len(levels_param) |-> levels_param[i] % WordMod]

\* the message of the tlx_die that arg1 .. arg7 reach, "" if they reach
\* run_merge_sort
dispatch(key) ==
    IF key.string_generator = 0 THEN "not implemented"
    ELSE IF key.alltoall_routine \in { 0, 1 } THEN "not implemented"
    ELSE IF key.golomb_encoding = 2 THEN "not implemented"
    ELSE IF key.prefix_doubling THEN "not yet implemented"
    ELSE ""

\* the template arguments arg5 and arg6 append for the byte encoder and for
\* the LCP compression
ByteEncoder(key) ==
    IF key.prefix_compression THEN "EmptyLcpByteEncoderMemCpy"
    ELSE "EmptyByteEncoderMemCpy"

LcpCompression(key) == key.lcp_compression

InitMain ==
    /\ envSize \in CommSizes
    /\ call \in [ op : { "main" },
                  levels_param : SeqsUpTo(LevelParams, MaxLevels),
                  num_iterations : 0 .. MaxIterations,
                  key : [ string_generator : Generators,
                          alltoall_routine : AlltoallRoutines,
                          golomb_encoding : GolombEncodings,
                          prefix_compression : BOOLEAN,
                          lcp_compression : BOOLEAN,
                          prefix_doubling : BOOLEAN ] ]
    /\ ret = "startup"
    /\ obj = << >>
    /\ nops = 0
    /\ FilterIdle
    /\ SortIdle

\* main up to the loop: the key, the levels and the check of the levels
Startup ==
    /\ call.op = "main"
    /\ ret = "startup"
    /\ LET levels == stoi_levels(call.levels_param)
       IN  /\ obj' = [ levels |-> levels, generated |-> 0, sorts |-> << >> ]
           /\ ret' = IF ~is_sorted(levels)
                     THEN "the given group sizes must be decreasing"
                     ELSE "running"
    /\ UNCHANGED << filterVars, sortVars, call, nops >>

\* one iteration of the loop: arg1 .. arg7, then run_merge_sort generates
\* the strings and sorts them
Iteration ==
    /\ call.op = "main"
    /\ ret = "running"
    /\ nops < call.num_iterations
    /\ IF dispatch(call.key) # ""
       THEN /\ ret' = dispatch(call.key)
            /\ UNCHANGED << obj, nops >>
       ELSE /\ obj' = [obj EXCEPT
                         !.generated = @ + 1,
                         !.sorts = Append(@, [ ByteEncoder |-> ByteEncoder(call.key),
                                               LcpCompression |-> LcpCompression(call.key) ])]
            /\ nops' = nops + 1
            /\ UNCHANGED ret
    /\ UNCHANGED << filterVars, sortVars, call >>

\* return EXIT_SUCCESS
ExitMain ==
    /\ call.op = "main"
    /\ ret = "running"
    /\ nops = call.num_iterations
    /\ ret' = "EXIT_SUCCESS"
    /\ UNCHANGED << filterVars, sortVars, call, obj, nops >>

NextMain ==
    \/ Startup
    \/ Iteration
    \/ ExitMain

SpecMain == InitMain /\ [][NextMain]_vars

(***************************************************************************)
(* mpi::rotate_strings_right on the ring of the communicator.  Messages    *)
(* from one rank to another with one tag do not overtake each other, so    *)
(* the edge from a rank to its successor is a queue; a message is the      *)
(* buffer that was sent.  A standard-mode send either returns at once      *)
(* (buffered) or when the message has been received (synchronous); both    *)
(* halves of MPI_Sendrecv proceed independently.                           *)
(***************************************************************************)
\* comm.rank_shifted_cyclic(-1) and comm.rank_shifted_cyclic(1)
pred(p) == (p + envSize - 1) % envSize

succ(p) == (p + 1) % envSize

\* comm.is_root()
is_root(p) == p = 0

skip_rankAlways(p) == TRUE

\* the argument skip_rank of rank p
skip_rank(p) == call.skip_rank[p]

send_bufOwn(o, p) == call.source[p]

\* the buffer of the data message: dest on a skipping rank, source otherwise
send_buf(o, p) == IF skip_rank(p) THEN o.dest[p] ELSE call.source[p]

\* dest.resize(recv_count)
resize(v, n) == [i \in 1 .. n |-> IF i <= Len(v) THEN v[i] ELSE 0]

\* a receive of up to n elements into buf
recv_into(buf, n, msg) ==
    [i \in 1 .. Len(buf) |-> IF i <= Len(msg) /\ i <= n THEN msg[i] ELSE buf[i]]

\* the k-th send of rank p has returned
SendComplete(o, p, k) == (~call.sync) \/ o.got[succ(p)] >= k

\* the vectors a rank may pass as source: rank p holds copies of p + 1
RotateSources == [PEs -> 0 .. MaxRotateLen]

InitRotate ==
    /\ envSize \in RingSizes
    /\ \E n \in RotateSources, skip \in [PEs -> BOOLEAN], s, nd \in BOOLEAN :
         call = [ op |-> "rotate_strings_right",
                  source |-> [p \in PEs |-> [i \in 1 .. n[p] |-> p + 1]],
                  skip_rank |-> skip,
                  sync |-> s,
                  ndebug |-> nd ]
    /\ obj = [ send_count |-> [p \in PEs |-> 0],
               recv_count |-> [p \in PEs |-> 0],
               dest |-> Empty,
               chan |-> Empty,
               got |-> [p \in PEs |-> 0],
               matched |-> Empty,
               forwarded |-> Empty ]
    /\ ret = [p \in PEs |-> "start"]
    /\ nops = 0
    /\ FilterIdle
    /\ SortIdle

\* lines 26-33 and the first send: the assertion, send_count = source.size(),
\* and MPI_Sendrecv posts the count on a rank that does not skip
EnterRotate(p) ==
    /\ call.op = "rotate_strings_right"
    /\ ret[p] = "start"
    /\ IF skip_rank(p) /\ is_root(p) /\ ~call.ndebug
       THEN /\ ret' = [ret EXCEPT ![p] = "abort"]
            /\ UNCHANGED obj
       ELSE LET n == Len(call.source[p])
            IN  IF skip_rank(p)
                THEN /\ ret' = [ret EXCEPT ![p] = "recv_count"]
                     /\ obj' = [obj EXCEPT !.send_count[p] = n]
                ELSE /\ ret' = [ret EXCEPT ![p] = "sendrecv_count"]
                     /\ obj' = [obj EXCEPT !.send_count[p] = n,
                                           !.chan[p] = Append(@, [ kind |-> "count",
                                                                   buf |-> << n >> ])]
    /\ UNCHANGED << filterVars, sortVars, call, nops >>

\* a receive from pred is matched with the first message on the edge
RecvRotate(p) ==
    /\ call.op = "rotate_strings_right"
    /\ obj.chan[pred(p)] # << >>
    /\ LET msg == Head(obj.chan[pred(p)])
           taken == [obj EXCEPT !.chan[pred(p)] = Tail(@), !.got[p] = @ + 1]
       IN  \/ /\ ret[p] = "recv_count"
              /\ obj' = [taken EXCEPT
                           !.send_count[p] = recv_into(<< @ >>, 1, msg.buf)[1],
                           !.matched[p] = Append(@, << "count", msg.kind >>)]
              /\ ret' = [ret EXCEPT ![p] = "send_count"]
           \/ /\ ret[p] = "sendrecv_count"
              /\ obj.got[p] = 0
              /\ obj' = [taken EXCEPT
                           !.recv_count[p] = recv_into(<< @ >>, 1, msg.buf)[1],
                           !.matched[p] = Append(@, << "count", msg.kind >>)]
              /\ UNCHANGED ret
           \/ /\ ret[p] = "recv_data" \/ (ret[p] = "sendrecv_data" /\ obj.got[p] = 1)
              /\ obj' = [taken EXCEPT
                           !.dest[p] = recv_into(@, obj.recv_count[p], msg.buf),
                           !.matched[p] = Append(@, << "data", msg.kind >>)]
              /\ ret' = [ret EXCEPT ![p] = IF @ = "recv_data" THEN "send_data" ELSE @]
    /\ UNCHANGED << filterVars, sortVars, call, nops >>

\* comm.send of a skipping rank: the count (line 46) or the data (line 59)
ForwardRotate(p) ==
    /\ call.op = "rotate_strings_right"
    /\ \/ /\ ret[p] = "send_count"
          /\ obj' = [obj EXCEPT !.chan[p] = Append(@, [ kind |-> "count",
                                                        buf |-> << obj.send_count[p] >> ])]
          /\ ret' = [ret EXCEPT ![p] = "sent_count"]
       \/ /\ ret[p] = "send_data"
          /\ obj' = [obj EXCEPT !.chan[p] = Append(@, [ kind |-> "data",
                                                        buf |-> send_buf(obj, p) ]),
                                !.forwarded[p] = send_buf(obj, p)]
          /\ ret' = [ret EXCEPT ![p] = "sent_data"]
    /\ UNCHANGED << filterVars, sortVars, call, nops >>

\* a send or an MPI_Sendrecv returns: dest.resize(recv_count) and the next
\* operation after the count, the return after the data
CompleteRotate(p) ==
    /\ call.op = "rotate_strings_right"
    /\ \/ /\ ret[p] = "sent_count"
          /\ SendComplete(obj, p, 1)
          /\ obj' = [obj EXCEPT !.recv_count[p] = obj.send_count[p],
                                !.dest[p] = resize(@, obj.send_count[p])]
          /\ ret' = [ret EXCEPT ![p] = "recv_data"]
       \/ /\ ret[p] = "sendrecv_count"
          /\ obj.got[p] = 1
          /\ SendComplete(obj, p, 1)
          /\ obj' = [obj EXCEPT !.dest[p] = resize(@, obj.recv_count[p]),
                                !.chan[p] = Append(@, [ kind |-> "data",
                                                        buf |-> send_buf(obj, p) ])]
          /\ ret' = [ret EXCEPT ![p] = "sendrecv_data"]
       \/ /\ ret[p] = "sent_data" \/ (ret[p] = "sendrecv_data" /\ obj.got[p] = 2)
          /\ SendComplete(obj, p, 2)
          /\ ret' = [ret EXCEPT ![p] = "returned"]
          /\ UNCHANGED obj
    /\ UNCHANGED << filterVars, sortVars, call, nops >>

NextRotate ==
    \E p \in PEs :
        \/ EnterRotate(p)
        \/ RecvRotate(p)
        \/ ForwardRotate(p)
        \/ CompleteRotate(p)

\* a rank that can take a step eventually takes one
SpecRotate == InitRotate /\ [][NextRotate]_vars /\ WF_vars(NextRotate)

(***************************************************************************)
(* The two overloads of BloomFilter::filter side by side: all ranks call   *)
(* the overload with a candidate list or the one without; results holds    *)
(* the depths of an earlier round.                                         *)
(***************************************************************************)
\* a depth that an earlier round has written into results
EarlierDepth == MaxDepth + 2

InitOverloads ==
    /\ InitInputs
    /\ call \in [ op : { "filter" }, overload : { "candidates", "all" } ]
    /\ call.overload = "all" => candidates = Empty
    /\ results = [p \in PEs |-> [i \in 1 .. Len(strings[p]) |-> EarlierDepth]]
    /\ pc = [p \in PEs |-> "start"]
    /\ colls = Empty
    /\ marked = Empty
    /\ hashStringIndices = Empty
    /\ local_duplicates = Empty
    /\ localLcpDuplicates = Empty
    /\ eosCandidates = Empty
    /\ intervalSizes = Empty
    /\ offsets = Empty
    /\ recvData = [p \in PEs |-> EmptyRecvData]
    /\ merged_triples = Empty
    /\ result_sets = Empty
    /\ any_local_dups = [p \in PEs |-> 0]
    /\ any_dups = [p \in PEs |-> FALSE]
    /\ duplicates = Empty
    /\ indicesOfAllDuplicates = Empty
    /\ ret = << >>
    /\ obj = << >>
    /\ nops = 0
    /\ SortIdle

NextOverloads ==
    \E p \in PEs :
        \/ call.overload = "candidates" /\ GenerateAndSend(p)
        \/ call.overload = "all" /\ GenerateAndSendAll(p)
        \/ ExchangeOffsets(p)
        \/ ExchangeCounts(p)
        \/ FindDuplicates(p)
        \/ call.overload = "candidates" /\ AfterAllreduce(p)
        \/ call.overload = "all" /\ AfterAllreduceAll(p)
        \/ call.overload = "candidates" /\ ReceiveDuplicates(p)
        \/ call.overload = "all" /\ ReceiveDuplicatesAll(p)

SpecOverloads == InitOverloads /\ [][NextOverloads]_vars

(***************************************************************************)
(* filter_exact of ExcatDistinguishingPrefix and of BloomfilterTest: the   *)
(* candidates of all ranks are gathered on every rank, sorted, and each    *)
(* rank raises the results of its own candidates to 1 + lcp with the       *)
(* neighbours.  The two classes differ in the order of the three gathers.  *)
(***************************************************************************)
gathersExcat(class) == << "allgather(numStrings)", "allgatherv(candidates)", "allgatherv(send_buffer)" >>

\* allgatherStrings: the gathers in the order the class issues them
gathers(class) ==
    IF class = "ExcatDistinguishingPrefix"
    THEN << "allgather(numStrings)", "allgatherv(candidates)", "allgatherv(send_buffer)" >>
    ELSE << "allgatherv(send_buffer)", "allgather(numStrings)", "allgatherv(candidates)" >>

\* the loop of allgatherStrings: the candidates' chars with their terminators
send_buffer(ss, cands) == Terminated([j \in 1 .. Len(cands) |-> ss[cands[j] + 1]])

\* what a gather returns on every rank
allgather(name) ==
    IF name = "allgather(numStrings)"
    THEN [k \in 1 .. envSize |-> Len(candidates[k - 1])]
    ELSE IF name = "allgatherv(candidates)"
    THEN Concat([k \in 1 .. envSize |-> candidates[k - 1]])
    ELSE Concat([k \in 1 .. envSize |-> send_buffer(strings[k - 1], candidates[k - 1])])

\* the member of ContainerSizesIndices that holds the result of a gather
MemberOf(name) ==
    IF name = "allgather(numStrings)" THEN "intervalSizes"
    ELSE IF name = "allgatherv(candidates)" THEN "stringIndices"
    ELSE "container"

StringTriple(string, stringIndex, PEIndex) ==
    [ string |-> string, stringIndex |-> stringIndex, PEIndex |-> PEIndex ]

\* the loops of generateStringTriples; container is the gathered buffer
RECURSIVE TriplesLoop(_, _, _, _, _)
TriplesLoop(csi, globalSet, curRank, curOffset, stringTriples) ==
    IF curRank >= envSize THEN stringTriples
    ELSE LET n == csi.intervalSizes[curRank + 1]
         IN  TriplesLoop(csi, globalSet, curRank + 1, curOffset + n,
                 stringTriples \o
                 [i \in 1 .. n |->
                     LET curString == globalSet[curOffset + i]
                     IN  StringTriple(ReadBytes(csi.container, curString.string,
                                                curString.length, 0),
                                      csi.stringIndices[curOffset + i], curRank)])

generateStringTriples(csi) ==
    IF SumSeq(csi.intervalSizes) = 0 THEN << >>
    ELSE TriplesLoop(csi, init_strings(csi.container), 0, 0, << >>)

\* std::stable_sort with StringTriple::operator<
RECURSIVE InsertTriple(_, _)
InsertTriple(x, s) ==
    IF s = << >> THEN << x >>
    ELSE IF StrLess(x.string, Head(s).string) THEN << x >> \o s
    ELSE << Head(s) >> \o InsertTriple(x, Tail(s))

RECURSIVE stable_sort(_, _)
stable_sort(s, n) ==
    IF n = 0 THEN << >> ELSE InsertTriple(s[n], stable_sort(s, n - 1))

distValuePrevCurLcp(s1, s2) == calc_lcp(s1, s2)

\* distValuePrevCur = 1 + calc_lcp(s1, s2)
distValuePrevCur(s1, s2) == 1 + calc_lcp(s1, s2)

\* distValuePrevCur > oldValue ? distValuePrevCur : oldValue, on the owner
Raise(res, triple, value, rank) ==
    IF triple.PEIndex = rank
    THEN [res EXCEPT ![triple.stringIndex + 1] = IF value > @ THEN value ELSE @]
    ELSE res

RECURSIVE ExactLoop(_, _, _, _)
ExactLoop(stringTriples, i, res, rank) ==
    IF i >= Len(stringTriples) THEN res
    ELSE LET prevStringTriple == stringTriples[i]
             curStringTriple == stringTriples[i + 1]
             value == distValuePrevCur(prevStringTriple.string, curStringTriple.string)
         IN  ExactLoop(stringTriples, i + 1,
                       Raise(Raise(res, prevStringTriple, value, rank),
                             curStringTriple, value, rank),
                       rank)

computeExactDistPrefixLengths(stringTriples, res, rank) ==
    IF stringTriples = << >> THEN res
    ELSE ExactLoop(stable_sort(stringTriples, Len(stringTriples)), 1, res, rank)

\* results of an earlier round
PriorDepths == { 0, 2 }

EmptySizesIndices == [ container |-> << >>, intervalSizes |-> << >>, stringIndices |-> << >> ]

InitExact ==
    /\ envSize \in CommSizes
    /\ seed = 1
    /\ depth = 1
    /\ round = 1
    /\ strings \in { f \in [PEs -> LocalLists] : TotalStrings(f) <= MaxStrings }
    /\ lcps = [p \in PEs |-> LcpArray(strings[p])]
    /\ candidates \in
         { [p \in PEs |-> SetToSortedSeq(c[p])] :
             c \in { c \in [PEs -> SUBSET (0 .. (MaxStrings - 1))] :
                       \A p \in PEs : c[p] \subseteq 0 .. (Len(strings[p]) - 1) } }
    /\ results \in { r \in [PEs -> SeqsUpTo(PriorDepths, MaxStrings)] :
                       \A p \in PEs : Len(r[p]) = Len(strings[p]) }
    /\ call \in { [ op |-> "filter_exact", class |-> c, results |-> results ] :
                    c \in { "ExcatDistinguishingPrefix", "BloomfilterTest" } }
    /\ pc = [p \in PEs |-> "start"]
    /\ colls = Empty
    /\ marked = Empty
    /\ hashStringIndices = Empty
    /\ local_duplicates = Empty
    /\ localLcpDuplicates = Empty
    /\ eosCandidates = Empty
    /\ intervalSizes = Empty
    /\ offsets = Empty
    /\ recvData = [p \in PEs |-> EmptySizesIndices]
    /\ merged_triples = Empty
    /\ result_sets = Empty
    /\ any_local_dups = [p \in PEs |-> 0]
    /\ any_dups = [p \in PEs |-> FALSE]
    /\ duplicates = Empty
    /\ indicesOfAllDuplicates = Empty
    /\ ret = << >>
    /\ obj = << >>
    /\ nops = 0
    /\ SortIdle

\* allgatherStrings up to its first gather
ExactStart(p) ==
    /\ call.op = "filter_exact"
    /\ pc[p] = "start"
    /\ Enter(p, gathers(call.class)[1])
    /\ UNCHANGED << sortVars, unitVars, inputVars, results, localVars, recvVars, any_dups,
                    duplicates, indicesOfAllDuplicates >>

\* the first or the second gather returns and the next one is entered
ExactGather(p) ==
    /\ call.op = "filter_exact"
    /\ \E k \in 1 .. 2 :
         /\ Len(colls[p]) = k
         /\ pc[p] = gathers(call.class)[k]
         /\ AllEntered(p)
         /\ recvData' = [recvData EXCEPT ![p][MemberOf(pc[p])] = allgather(pc[p])]
         /\ Enter(p, gathers(call.class)[k + 1])
    /\ UNCHANGED << sortVars, unitVars, inputVars, results, localVars, merged_triples,
                    result_sets, any_local_dups, any_dups, duplicates,
                    indicesOfAllDuplicates >>

\* the last gather returns; generateStringTriples and
\* computeExactDistPrefixLengths
ExactFinish(p) ==
    /\ call.op = "filter_exact"
    /\ Len(colls[p]) = 3
    /\ pc[p] = gathers(call.class)[3]
    /\ AllEntered(p)
    /\ LET csi == [recvData[p] EXCEPT ![MemberOf(pc[p])] = allgather(pc[p])]
           globalStringTriples == generateStringTriples(csi)
       IN  /\ recvData' = [recvData EXCEPT ![p] = csi]
           /\ merged_triples' = [merged_triples EXCEPT ![p] = globalStringTriples]
           /\ results' = [results EXCEPT ![p] =
                  computeExactDistPrefixLengths(globalStringTriples, @, p)]
    /\ pc' = [pc EXCEPT ![p] = "done"]
    /\ UNCHANGED << sortVars, unitVars, inputVars, colls, localVars, result_sets,
                    any_local_dups, any_dups, duplicates, indicesOfAllDuplicates >>

NextExact ==
    \E p \in PEs :
        \/ ExactStart(p)
        \/ ExactGather(p)
        \/ ExactFinish(p)

SpecExact == InitExact /\ [][NextExact]_vars

(***************************************************************************)
(* count_duplicate_ranks and distribute_ranks of space_efficient_sorter:   *)
(* the global ranks are sent to the process of their interval and counted  *)
(* there.                                                                  *)
(***************************************************************************)
RECURSIVE SelectByOwner(_, _, _, _)
SelectByOwner(s, o, p, i) ==
    IF i > Len(s) THEN << >>
    ELSE (IF o[i] = p THEN << s[i] >> ELSE << >>) \o SelectByOwner(s, o, p, i + 1)

\* the global ranks of all processes, as a flat list with an owner each
RankLists ==
    { [p \in PEs |-> SelectByOwner(s, o, p, 1)] :
        s \in SeqsUpTo(0 .. MaxRank, MaxRanks), o \in [1 .. MaxRanks -> PEs] }

div_floor(n, k) == n \div k

\* tlx::div_ceil
div_ceil(n, k) == (n + k - 1) \div k

\* std::max_element and ops::max
max_element(S) == CHOOSE x \in S : \A y \in S : x >= y

\* local_max == end ? 0 : *local_max + 1
local_bound(global_ranks) ==
    IF global_ranks = << >> THEN 0 ELSE max_element(Range(global_ranks)) + 1

\* allreduce_single with ops::max
upper_bound(all_ranks) == max_element({ local_bound(all_ranks[p]) : p \in PEs })

interval_size(all_ranks) == div_ceil(upper_bound(all_ranks), envSize)

\* the lambda dest; called with interval_size # 0 only
dest(rank, size) == rank \div size

\* the part of send_buf for process q: the ranks with dest q in input order
RECURSIVE send_block(_, _, _)
send_block(global_ranks, size, q) ==
    IF global_ranks = << >> THEN << >>
    ELSE (IF dest(Head(global_ranks), size) = q THEN << Head(global_ranks) >> ELSE << >>)
         \o send_block(Tail(global_ranks), size, q)

\* alltoallv: process q receives the blocks for q in the order of the senders
alltoallv_ranks(all_ranks, size) ==
    [q \in PEs |-> Concat([k \in 1 .. envSize |-> send_block(all_ranks[k - 1], size, q)])]

\* std::adjacent_difference(begin, end, begin)
adjacent_difference(s) ==
    [i \in 1 .. Len(s) |-> IF i = 1 THEN s[1] ELSE s[i] - s[i - 1]]

\* std::adjacent_difference with lhs == 1 && rhs == 0; lhs is the element,
\* rhs the one before it
adjacent_flags(s) ==
    [i \in 1 .. Len(s) |->
        IF i = 1 THEN s[1] ELSE IF s[i] = 1 /\ s[i - 1] = 0 THEN 1 ELSE 0]

\* std::count
count(s, value) == Cardinality({ i \in DOMAIN s : s[i] = value })

\* lines 203-229 on one process
count_ranks(dist_ranks) ==
    LET sorted == SortNat(dist_ranks)
        diffs == [adjacent_difference(sorted) EXCEPT ![1] = 1]
        flags == [adjacent_flags(diffs) EXCEPT ![1] = 0]
        total_ranks == Len(dist_ranks)
        distinct_ranks == IF dist_ranks = << >> THEN 0 ELSE count(diffs, 1)
        duplicate_ranks == IF dist_ranks = << >> THEN 0 ELSE count(flags, 1)
        non_unique_ranks == total_ranks - distinct_ranks
    IN  [ total_ranks |-> total_ranks,
          distinct_ranks |-> distinct_ranks,
          duplicate_ranks |-> duplicate_ranks,
          total_duplicates |-> non_unique_ranks + duplicate_ranks ]

InitRanks ==
    /\ envSize \in RingSizes
    /\ call \in { [ op |-> "count_duplicate_ranks", global_ranks |-> g ] : g \in RankLists }
    /\ obj = [ upper_bound |-> 0, interval_size |-> 0, dist_ranks |-> Empty,
               added |-> [p \in PEs |-> << >>] ]
    /\ ret = "start"
    /\ nops = 0
    /\ FilterIdle
    /\ SortIdle

\* lines 182-187: the allreduce and the interval size
ReduceRanks ==
    /\ call.op = "count_duplicate_ranks"
    /\ ret = "start"
    /\ obj' = [obj EXCEPT !.upper_bound = upper_bound(call.global_ranks),
                          !.interval_size = interval_size(call.global_ranks)]
    /\ ret' = "reduced"
    /\ UNCHANGED << filterVars, sortVars, call, nops >>

\* lines 190-197: counts, send_buf and the alltoallv; dest divides by
\* interval_size for every rank a process holds
ExchangeRanks ==
    /\ call.op = "count_duplicate_ranks"
    /\ ret = "reduced"
    /\ IF obj.interval_size = 0 /\ \E p \in PEs : call.global_ranks[p] # << >>
       THEN /\ ret' = "division by zero"
            /\ UNCHANGED obj
       ELSE /\ ret' = "distributed"
            /\ obj' = [obj EXCEPT !.dist_ranks =
                           alltoallv_ranks(call.global_ranks, obj.interval_size)]
    /\ UNCHANGED << filterVars, sortVars, call, nops >>

\* lines 203-229 on process p: what it adds to the measuring tool
CountRanks(p) ==
    /\ call.op = "count_duplicate_ranks"
    /\ ret = "distributed"
    /\ obj.added[p] = << >>
    /\ obj' = [obj EXCEPT !.added[p] = << count_ranks(obj.dist_ranks[p]) >>]
    /\ UNCHANGED << filterVars, sortVars, call, ret, nops >>

\* every process has returned from count_duplicate_ranks
ReturnRanks ==
    /\ call.op = "count_duplicate_ranks"
    /\ ret = "distributed"
    /\ \A p \in PEs : obj.added[p] # << >>
    /\ ret' = "done"
    /\ UNCHANGED << filterVars, sortVars, call, obj, nops >>

NextRanks ==
    \/ ReduceRanks
    \/ ExchangeRanks
    \/ \E p \in PEs : CountRanks(p)
    \/ ReturnRanks

SpecRanks == InitRanks /\ [][NextRanks]_vars

(***************************************************************************)
(* Vocabulary of the properties of one filter round.                       *)
(***************************************************************************)
Returned(p) == pc[p] = "done"

\* the candidate occurrences of the round: << rank, string index >>
Occurrences == { << p, i >> : p \in PEs, i \in 0 .. (MaxStrings - 1) } 

CandidateOccs == { o \in Occurrences : o[2] \in Range(candidates[o[1]]) }

StringOccs == { o \in Occurrences : o[2] < Len(strings[o[1]]) }

StrOf(o) == strings[o[1]][o[2] + 1]

\* both strings reach depth d and agree on their first d characters
SameDPrefix(o1, o2) ==
    /\ Len(StrOf(o1)) >= depth
    /\ Len(StrOf(o2)) >= depth
    /\ Prefix(StrOf(o1), depth) = Prefix(StrOf(o2), depth)

SameDHash(o1, o2) ==
    /\ Len(StrOf(o1)) >= depth
    /\ Len(StrOf(o2)) >= depth
    /\ Hash(seed, StrOf(o1), depth) = Hash(seed, StrOf(o2), depth)

Count(s, x) == Cardinality({ i \in DOMAIN s : s[i] = x })

\* C3: no false negatives.  When a rank has returned from the round, every
\* candidate of it that shares its d-prefix with another candidate occurrence
\* (on any rank) is in the duplicate list the rank returns.
C3_NoFalseNegatives ==
    \A o \in CandidateOccs :
        (Returned(o[1]) /\ \E o2 \in CandidateOccs \ {o} : SameDPrefix(o, o2))
            => o[2] \in Range(indicesOfAllDuplicates[o[1]])

\* two candidates on different ranks share their d-prefix, each is unique on
\* its own rank, and both ranks have returned with the index in their lists
C3_Witness ==
    \E o1, o2 \in CandidateOccs :
        /\ o1[1] # o2[1]
        /\ SameDPrefix(o1, o2)
        /\ local_duplicates[o1[1]] = << >> /\ localLcpDuplicates[o1[1]] = << >>
        /\ Returned(o1[1]) /\ Returned(o2[1])
        /\ o1[2] \in Range(indicesOfAllDuplicates[o1[1]])
        /\ o2[2] \in Range(indicesOfAllDuplicates[o2[1]])

\* C4 as stated: every returned index belongs to a string that shares its
\* d-prefix with another string occurrence of the global set.
C4_SoundnessByPrefix ==
    \A o \in StringOccs :
        (Returned(o[1]) /\ o[2] \in Range(indicesOfAllDuplicates[o[1]]))
            => \E o2 \in StringOccs \ {o} : SameDPrefix(o, o2)

\* C4 amended: every returned index belongs to a candidate of length >= d
\* whose d-prefix has the same hash value as the d-prefix of another
\* candidate occurrence of the global set; when the hash function does not
\* collide on the d-prefixes of the candidates, the two d-prefixes are equal.
HashInjectiveOnCandidates ==
    \A o1, o2 \in CandidateOccs : SameDHash(o1, o2) => SameDPrefix(o1, o2)

C4_SoundnessByHash ==
    \A o \in StringOccs :
        (Returned(o[1]) /\ o[2] \in Range(indicesOfAllDuplicates[o[1]]))
            => /\ o \in CandidateOccs
               /\ \E o2 \in CandidateOccs \ {o} : SameDHash(o, o2)
               /\ HashInjectiveOnCandidates
                    => \E o2 \in CandidateOccs \ {o} : SameDPrefix(o, o2)

\* a rank has returned an index whose d-prefix no other string shares: the
\* duplicate is one of hash values only, found by another rank
C4_Witness ==
    \E o \in CandidateOccs :
        /\ Returned(o[1])
        /\ o[2] \in Range(indicesOfAllDuplicates[o[1]])
        /\ o[2] \notin Range(local_duplicates[o[1]])
        /\ ~\E o2 \in StringOccs \ {o} : SameDPrefix(o, o2)
        /\ \E o2 \in CandidateOccs \ {o} : o2[1] # o[1] /\ SameDHash(o, o2)

(***************************************************************************)
(* The receiver side of the round.                                         *)
(***************************************************************************)
\* findDuplicates has walked the merged stream on rank p
Walked(p) == pc[p] \in { "allreduce", "alltoallv_dups", "done" }

\* the entry at position k of the stream of p has a partner with its hash
InRun(m, k) == \E j \in DOMAIN m : j # k /\ m[j].hashValue = m[k].hashValue

\* the number of entries of the same origin before position k
Earlier(m, k) ==
    Cardinality({ j \in 1 .. (k - 1) : m[j].PEIndex = m[k].PEIndex })

StrictlyIncreasing(s) == \A i \in 1 .. (Len(s) - 1) : s[i] < s[i + 1]

\* C5: on a receiver, an entry of the merged stream is reported to its origin
\* exactly once if another entry of the stream has its hash value, and never
\* otherwise; nothing else is reported.
C5_ReportedIffInRun ==
    \A p \in PEs :
        Walked(p) =>
            LET m == merged_triples[p]
                off == recvData[p].globalOffsets
            IN  /\ \A k \in DOMAIN m :
                       Count(result_sets[p][m[k].PEIndex + 1],
                             off[m[k].PEIndex + 1] + Earlier(m, k))
                         = IF InRun(m, k) THEN 1 ELSE 0
                /\ SumSeq([q \in 1 .. envSize |-> Len(result_sets[p][q])])
                     = Cardinality({ k \in DOMAIN m : InRun(m, k) })

\* a stream that holds an entry with a unique hash and a run of equal hashes
\* that ends at the last element; the two members of the run are reported
C5_Witness ==
    \E p \in PEs :
        /\ Walked(p)
        /\ LET m == merged_triples[p]
           IN  /\ Len(m) >= 3
               /\ ~InRun(m, 1)
               /\ InRun(m, Len(m))
               /\ SumSeq([q \in 1 .. envSize |-> Len(result_sets[p][q])]) = 2

\* the hash values rank q shipped
Shipped(q) == get_hash(hashStringIndices[q])

\* C6: the indices a receiver p reports to origin q are exactly the positions,
\* in the list q shipped, of the entries q sent to p whose hash value occurs
\* more than once on p; each list is strictly increasing, and so is the
\* concatenation of the lists an origin receives, every index of which lies
\* inside its shipped list.
C6_BackMapping ==
    /\ \A p \in PEs : Walked(p) =>
         \A q \in PEs :
            LET first == offsets[q][p + 1]
                cnt == intervalSizes[q][p + 1]
            IN  /\ StrictlyIncreasing(result_sets[p][q + 1])
                /\ Range(result_sets[p][q + 1]) =
                     { i \in first .. (first + cnt - 1) :
                         Count(recvData[p].data, Shipped(q)[i + 1]) >= 2 }
    /\ \A q \in PEs : (Returned(q) /\ any_dups[q]) =>
         /\ duplicates[q] =
              Concat([k \in 1 .. envSize |-> result_sets[k - 1][q + 1]])
         /\ StrictlyIncreasing(duplicates[q])
         /\ \A i \in Range(duplicates[q]) : i < Len(hashStringIndices[q])

\* an origin has received an index from a receiver for which its offset is
\* not 0
C6_Witness ==
    \E p, q \in PEs :
        /\ Returned(q)
        /\ offsets[q][p + 1] > 0
        /\ result_sets[p][q + 1] # << >>
        /\ Len(duplicates[q]) >= 1

(***************************************************************************)
(* The collectives of the round.                                           *)
(***************************************************************************)
RoundCollectives ==
    << "alltoall_offsets", "alltoall_counts", "alltoallv_hashes", "allreduce",
       "alltoallv_dups" >>

IsPrefixOf(s, t) == Len(s) <= Len(t) /\ s = SubSeq(t, 1, Len(s))

SomeRankFoundDuplicate == \E q \in PEs : any_local_dups[q] > 0

\* C7: every rank enters the collectives of the round in the one order; a rank
\* that has passed the allreduce has entered the alltoallv of the duplicate
\* indices exactly if some rank found a duplicate, so that it is entered by all
\* ranks or by none.
C7_SameCollectives ==
    \A p \in PEs :
        /\ IsPrefixOf(colls[p], RoundCollectives)
        /\ pc[p] \in { "alltoallv_dups", "done" } =>
             /\ Len(colls[p]) >= 4
             /\ (Len(colls[p]) = 5) <=> SomeRankFoundDuplicate
             /\ \A q \in PEs : Len(colls[q]) >= 4

\* a rank without candidates has returned from a round in which another rank
\* found duplicates, after entering all five collectives
C7_Witness ==
    \E p \in PEs :
        /\ candidates[p] = << >>
        /\ any_local_dups[p] = 0
        /\ Returned(p)
        /\ colls[p] = RoundCollectives
        /\ SomeRankFoundDuplicate
        /\ \A q \in PEs : Returned(q) /\ colls[q] = colls[p]

(***************************************************************************)
(* The sender side of the round.                                           *)
(***************************************************************************)
\* rank p has run localDuplicateIndices and the shouldSend filter
Sent(p) == pc[p] # "start"

\* the positions of the maximal run of equal hash values that holds position k
RunOf(m, k) == { j \in DOMAIN m : m[j].hashValue = m[k].hashValue }

IsFirstOfRun(m, k) == \A j \in RunOf(m, k) : k <= j

HashValues(m) == { m[k].hashValue : k \in DOMAIN m }

StringIndices(m) == { m[k].stringIndex : k \in DOMAIN m }

\* C8: after localDuplicateIndices, in every maximal run of two or more equal
\* hash values the first element has local_duplicate and send_anyway and every
\* other element has local_duplicate but not send_anyway; the list the
\* shouldSend filter leaves is sorted by hash and has exactly one entry per
\* distinct hash value.
C8_RunFlagsAndOnePerHash ==
    \A p \in PEs :
        Sent(p) =>
            LET m == marked[p]
                shipped == hashStringIndices[p]
            IN  /\ \A k \in DOMAIN m :
                       Cardinality(RunOf(m, k)) >= 2 =>
                           /\ m[k].isLocalDuplicate
                           /\ m[k].isLocalDuplicateButSendAnyway
                                <=> IsFirstOfRun(m, k)
                /\ IsSortedByHash(shipped)
                /\ \A h \in HashValues(m) :
                       Cardinality({ k \in DOMAIN shipped :
                                        shipped[k].hashValue = h }) = 1

\* the last element of the list is the LCP root of a local LCP duplicate and
\* is not the first of its run of equal hash values: it has send_anyway set
\* and is recorded twice as a local hash duplicate
C8_Witness ==
    \E p \in PEs :
        /\ Sent(p)
        /\ LET m == marked[p]
           IN  /\ Len(m) >= 2
               /\ m[Len(m)].isLcpLocalRoot
               /\ ~IsFirstOfRun(m, Len(m))
               /\ m[Len(m)].isLocalDuplicateButSendAnyway
               /\ Count(local_duplicates[p], m[Len(m)].stringIndex) = 2

\* the remote duplicates of p whose shipped entry is not flagged send_anyway
RemoteNotSendAnyway(p) ==
    { hashStringIndices[p][i + 1].stringIndex : i \in
        { j \in Range(duplicates[p]) :
            ~hashStringIndices[p][j + 1].isLocalDuplicateButSendAnyway } }

\* C9: the list a round returns is ascending, holds every local string index
\* at most once, and is the union of the local hash duplicates, the local LCP
\* duplicates and the remote duplicates not flagged send_anyway; hash keys
\* under which two different prefixes of a rank collide are included.
C9_SortedSetOfThreeStreams ==
    \A p \in PEs :
        Returned(p) =>
            /\ StrictlyIncreasing(indicesOfAllDuplicates[p])
            /\ Range(indicesOfAllDuplicates[p]) =
                   Range(local_duplicates[p]) \cup Range(localLcpDuplicates[p])
                       \cup RemoteNotSendAnyway(p)

\* a rank has returned a list in which one string index stands twice
C9_Witness ==
    \E p \in PEs :
        /\ Returned(p)
        /\ \E i \in Range(indicesOfAllDuplicates[p]) :
               Count(indicesOfAllDuplicates[p], i) >= 2

\* C10: in a round at depth d a candidate shorter than d is an EOS candidate:
\* it is neither hashed nor shipped, its distinguishing depth becomes its own
\* length and its index is not returned as a duplicate.  A candidate of length
\* d or more is not an EOS candidate: it is hashed or is a local LCP
\* duplicate (a candidate of length exactly d as any longer one), and its
\* distinguishing depth becomes d.
C10_EosCandidates ==
    \A p \in PEs :
        \A i \in Range(candidates[p]) :
            LET length == Len(strings[p][i + 1])
            IN  /\ Sent(p) =>
                    IF length < depth
                    THEN /\ i \in Range(eosCandidates[p])
                         /\ i \notin StringIndices(marked[p])
                         /\ i \notin StringIndices(hashStringIndices[p])
                         /\ i \notin Range(localLcpDuplicates[p])
                    ELSE /\ i \notin Range(eosCandidates[p])
                         /\ \/ \E k \in DOMAIN marked[p] :
                                  /\ marked[p][k].stringIndex = i
                                  /\ marked[p][k].hashValue =
                                         Hash(seed, strings[p][i + 1], depth)
                            \/ i \in Range(localLcpDuplicates[p])
                /\ Returned(p) =>
                    IF length < depth
                    THEN /\ results[p][i + 1] = length
                         /\ i \notin Range(indicesOfAllDuplicates[p])
                    ELSE results[p][i + 1] = depth

\* a returned rank with an EOS candidate next to a candidate of length
\* exactly d that was hashed and shipped, and found to be a duplicate
C10_Witness ==
    \E p \in PEs :
        /\ Returned(p)
        /\ \E i, j \in Range(candidates[p]) :
               /\ Len(strings[p][i + 1]) < depth
               /\ results[p][i + 1] = Len(strings[p][i + 1])
               /\ Len(strings[p][j + 1]) = depth
               /\ j \in StringIndices(hashStringIndices[p])
               /\ j \in Range(indicesOfAllDuplicates[p])
               /\ results[p][j + 1] = depth

(***************************************************************************)
(* The contract of the sort.                                               *)
(***************************************************************************)
SortReturned == sortPc = "done"

\* the strings of all ranks in rank order
Gathered(f) == Concat([k \in 1 .. envSize |-> f[k - 1]])

BagOfStrings(s) == [x \in Range(s) |-> Count(s, x)]

CharCount(s) == SumSeq([i \in DOMAIN s |-> Len(s[i])])

\* C1: when the sort has returned on every rank, every rank's output is
\* sorted and every string of rank i is <= every string of rank j for i < j:
\* the concatenation of the outputs in rank order is sorted.
C1_SortedGlobally ==
    SortReturned =>
        /\ \A r \in PEs : IsSortedStrings(container[r])
        /\ \A i, j \in PEs :
               i < j => \A x \in Range(container[i]) :
                            \A y \in Range(container[j]) : StrLeq(x, y)
        /\ IsSortedStrings(Gathered(container))

\* a sort over four ranks and more than one level has returned; a rank was
\* given no strings, the input was not sorted and two ranks hold output
C1_Witness ==
    /\ SortReturned
    /\ envSize = 4
    /\ Len(grid) >= 2
    /\ \E r \in PEs : input[r] = << >>
    /\ ~IsSortedStrings(Gathered(input))
    /\ Cardinality({ r \in PEs : container[r] # << >> }) >= 2

\* C2: the strings held by all ranks are at every step of the sort the
\* strings that were given to it, each as often as it was given: the same
\* multiset, the same number of strings and the same number of characters.
C2_SameMultiset ==
    /\ BagOfStrings(Gathered(container)) = BagOfStrings(Gathered(input))
    /\ Len(Gathered(container)) = Len(Gathered(input))
    /\ CharCount(Gathered(container)) = CharCount(Gathered(input))

\* a sort of an input that holds one string twice has returned after moving
\* strings between ranks on more than one level
C2_Witness ==
    /\ SortReturned
    /\ Len(grid) >= 2
    /\ \E x \in Range(Gathered(input)) : Count(Gathered(input), x) >= 2
    /\ \E r \in PEs : BagOfStrings(container[r]) # BagOfStrings(input[r])

(***************************************************************************)
(* Prefix doubling.                                                        *)
(***************************************************************************)
MaxOf(S) == IF S = {} THEN 0 ELSE CHOOSE x \in S : \A y \in S : x >= y

\* the length of the longest candidate string of the round, over all ranks
LongestCandidate ==
    MaxOf(UNION { { Len(strings[p][i + 1]) : i \in Range(candidates[p]) } :
                    p \in PEs })

LongestString ==
    MaxOf(UNION { { Len(strings[p][i]) : i \in DOMAIN strings[p] } : p \in PEs })

AllReturned == \A p \in PEs : Returned(p)

\* C11: in every round of prefix doubling the list a rank returns holds only
\* candidates of the round; a round whose depth exceeds the length of the
\* longest candidate string returns the empty list on every rank, so that a
\* further round is started only from a depth that is at most the length of
\* the longest string.
C11_DoublingTerminates ==
    /\ \A p \in PEs :
           Returned(p) =>
               /\ Range(indicesOfAllDuplicates[p]) \subseteq Range(candidates[p])
               /\ depth > LongestCandidate => indicesOfAllDuplicates[p] = << >>
    /\ round > 1 => depth \div 2 <= LongestString
    /\ round < MaxRounds

\* the third round, at a depth above the longest candidate, has returned the
\* empty list on each of two ranks after two rounds that found duplicates
C11_Witness ==
    /\ envSize = 2
    /\ round = 3
    /\ AllReturned
    /\ depth > LongestCandidate
    /\ \E p \in PEs : candidates[p] # << >>
    /\ \A p \in PEs : indicesOfAllDuplicates[p] = << >>

(***************************************************************************)
(* computeIntervalSizes.                                                   *)
(***************************************************************************)
IntervalsDone == call.op = "computeIntervalSizes" /\ ret # << >>

CountIn(hashes, lo, hi) ==
    Cardinality({ i \in DOMAIN hashes : lo <= hashes[i] /\ hashes[i] < hi })

\* the number of hashes h with k * U / P <= h < (k + 1) * U / P
CountInLinear(hashes, k, U, P) ==
    Cardinality({ i \in DOMAIN hashes :
                    k * U <= hashes[i] * P /\ hashes[i] * P < (k + 1) * U })

\* C12 as stated: P counts that sum to the number of hashes, count k being
\* the number of hashes in [k * U / P, (k + 1) * U / P).
C12_LinearIntervals ==
    IntervalsDone =>
        /\ Len(ret[1]) = envSize
        /\ SumSeq(ret[1]) = Len(call.hashes)
        /\ \A k \in 0 .. (envSize - 1) :
               ret[1][k + 1] = CountInLinear(call.hashes, k, bloomFilterSize, envSize)

\* C12: computeIntervalSizes returns P counts that sum to the number of
\* hashes; with w the integer quotient U / P, count k is the number of hashes
\* in [k * w, (k + 1) * w) for k < P - 1 and the last count is the number of
\* hashes from (P - 1) * w on; the limits (i + 1) * w - 1 stay inside the
\* word; the offsets are the exclusive prefix sums and offsets.back() +
\* counts.back() is the number of hashes.
C12_FlooredIntervals ==
    IntervalsDone =>
        LET w == bloomFilterSize \div envSize
            P == envSize
        IN  /\ Len(ret[1]) = P
            /\ SumSeq(ret[1]) = Len(call.hashes)
            /\ \A k \in 0 .. (P - 2) :
                   ret[1][k + 1] = CountIn(call.hashes, k * w, (k + 1) * w)
            /\ ret[1][P] = CountIn(call.hashes, (P - 1) * w, WordMod)
            /\ \A i \in 0 .. (P - 2) :
                   (i + 1) * w < WordMod /\ (i + 1) * w - 1 >= 0
            /\ Len(ret[2]) = P
            /\ \A k \in 1 .. P : ret[2][k] = SumSeq(SubSeq(ret[1], 1, k - 1))
            /\ ret[2][P] + ret[1][P] = Len(call.hashes)

\* three hashes for three ranks, one on each interval limit of the code
C12_Witness ==
    /\ IntervalsDone
    /\ envSize = 3
    /\ Len(call.hashes) = 3
    /\ ret[1] = << 1, 1, 1 >>
    /\ call.hashes[2] = bloomFilterSize \div 3
    /\ call.hashes[3] = 2 * (bloomFilterSize \div 3)

(***************************************************************************)
(* StringLcpContainer.                                                     *)
(***************************************************************************)
\* the chars of string i of a container, as its descriptor delimits them
StrBytes(c, i) ==
    ReadBytes(c.raw_strings, c.strings[i].string, c.strings[i].length, NullPtr)

Contents(c) == [i \in DOMAIN c.strings |-> StrBytes(c, i)]

\* the byte behind string i, NullPtr when it is outside the arena
Terminator(c, i) ==
    ReadByte(c.raw_strings, c.strings[i].string + c.strings[i].length, NullPtr)

\* the strings whose tails and lcp values are given
RECURSIVE Decompress(_, _, _)
Decompress(tails, L, S) ==
    IF Len(S) = Len(tails) THEN S
    ELSE LET i == Len(S) + 1
             prev == IF i = 1 THEN << >> ELSE S[i - 1]
         IN  Decompress(tails, L,
                        Append(S, SubSeq(prev, 1, Min(L[i], Len(prev))) \o tails[i]))

\* L is the LCP array of the strings S
IsLcpArrayOf(L, S) ==
    /\ Len(L) = Len(S)
    /\ \A i \in DOMAIN S : L[i] = (IF i = 1 THEN 0 ELSE calc_lcp(S[i - 1], S[i]))

\* the container held the tails of LCP-compressed strings, one after the
\* other in its arena, and extend_prefix was called with their LCP array
ExtendedCompressed ==
    /\ call.op = "extend_prefix"
    /\ ret # "abort"
    /\ call.pre.strings = init_strings(call.pre.raw_strings)
    /\ Len(call.arg) = Len(call.pre.strings)
    /\ IsLcpArrayOf(call.arg, Decompress(Contents(call.pre), call.arg, << >>))

\* C13: extend_prefix inverts LCP compression.  When the container held the
\* tails S[i][L[i]..] of strings S with LCP array L in a contiguous
\* null-terminated arena, then after extend_prefix(L) it holds exactly the
\* strings S[i], each followed by a 0 byte, as many strings as before, and
\* no write left the new arena.
C13_ExtendPrefixInverts ==
    ExtendedCompressed =>
        /\ ret # "overflow"
        /\ Len(obj.strings) = Len(call.pre.strings)
        /\ Contents(obj) = Decompress(Contents(call.pre), call.arg, << >>)
        /\ \A i \in DOMAIN obj.strings : Terminator(obj, i) = 0

\* "a", "ab", "aba" from the tails "a", "b", "a"
C13_Witness ==
    /\ ExtendedCompressed
    /\ call.arg = << 0, 1, 2 >>
    /\ Contents(call.pre) = << << 1 >>, << 2 >>, << 1 >> >>
    /\ Contents(obj) = << << 1 >>, << 1, 2 >>, << 1, 2, 1 >> >>

\* make_contiguous ran on a container whose descriptors lie in its arena
MadeContiguous ==
    /\ call.op = "make_contiguous"
    /\ is_consistent(call.pre)

\* C14: after make_contiguous the arena holds the strings in descriptor
\* order, each followed by one 0 byte: the first descriptor points to the
\* start of the arena, descriptors[i].ptr + descriptors[i].len + 1 is
\* descriptors[i + 1].ptr, the arena has the sum of the lengths plus the
\* number of strings bytes, content and order of the strings are those from
\* before, and a second make_contiguous changes nothing.
C14_MakeContiguous ==
    MadeContiguous =>
        LET strs == obj.strings
        IN  /\ Len(strs) = Len(call.pre.strings)
            /\ Len(strs) > 0 => strs[1].string = 0
            /\ \A i \in 1 .. (Len(strs) - 1) :
                   strs[i].string + strs[i].length + 1 = strs[i + 1].string
            /\ \A i \in DOMAIN strs : Terminator(obj, i) = 0
            /\ Len(obj.raw_strings) = get_sum_length(strs) + Len(strs)
            /\ Contents(obj) = Contents(call.pre)
            /\ obj.lcps = call.pre.lcps
            /\ make_contiguous(obj, 0) = obj
            /\ call.pre = make_contiguous(call.pre, 0) => obj = call.pre

\* three strings whose descriptors were put in another order, made contiguous
C14_Witness ==
    /\ MadeContiguous
    /\ nops = 2
    /\ Len(obj.strings) = 3
    /\ call.pre.strings[1].string > call.pre.strings[2].string
    /\ Contents(obj)[1] # Contents(obj)[2]
    /\ obj.strings[1].length = 1

LcpsParallel(c) == Len(c.lcps) = Len(c.strings)

\* C15 as stated: lcps.len == strings.len after construction and after
\* every public operation.
C15_LcpsParallelAlways == ret # "abort" => LcpsParallel(obj)

\* C15: lcps.len == strings.len holds after the constructors that size the
\* lcp array themselves, after the constructor that asserts it, after the
\* update without lcps and after resize_strings; swap, make_contiguous and
\* extend_prefix keep it; the constructor from three vectors, set(strings),
\* set(lcps), the update with lcps, delete_strings, delete_lcps,
\* release_strings and release_lcps give it exactly when the vector they put
\* in or leave behind is as long as the other one.
C15_LcpsParallelWhenPaired ==
    ret # "abort" =>
        /\ call.op \in { "StringLcpContainer()", "StringLcpContainer(count)",
                         "StringLcpContainer(raw, strings)",
                         "StringLcpContainer(raw, init)" } => LcpsParallel(obj)
        /\ call.op = "StringLcpContainer(raw, lcps, init)" /\ ret = "ok" /\ nops = 0
               => LcpsParallel(obj)
        /\ call.op \in { "update(raw)", "resize_strings" } => LcpsParallel(obj)
        /\ call.op \in { "swap", "make_contiguous", "extend_prefix", "rearrange" }
               /\ LcpsParallel(call.pre) => LcpsParallel(obj)
        /\ call.op = "StringLcpContainer(raw, strings, lcps)"
               => (LcpsParallel(obj) <=> Len(call.arg[2]) = Len(call.arg[3]))
        /\ call.op = "set(strings)"
               => (LcpsParallel(obj) <=> Len(call.arg) = Len(call.pre.lcps))
        /\ call.op = "set(lcps)"
               => (LcpsParallel(obj) <=> Len(call.arg) = Len(call.pre.strings))
        /\ call.op = "update(raw, lcps)"
               => (LcpsParallel(obj) <=> Len(call.arg[2]) = Len(init_strings(call.arg[1])))
        /\ call.op \in { "delete_strings", "release_strings" }
               => (LcpsParallel(obj) <=> Len(obj.strings) = Len(call.pre.lcps))
        /\ call.op \in { "delete_lcps", "release_lcps" }
               => (LcpsParallel(obj) <=> Len(obj.lcps) = Len(call.pre.strings))

\* resize_strings on a container that set(strings) left with two lcps for
\* one string
C15_Witness ==
    /\ ret = "ok"
    /\ call.op = "resize_strings"
    /\ Len(call.pre.strings) = 1
    /\ Len(call.pre.lcps) = 2
    /\ Len(obj.strings) = 2
    /\ Len(obj.lcps) = 2

\* the descriptors cover the arena from its start to its end in their
\* order, each string followed by its 0 byte
Tiled(c) ==
    /\ Len(c.strings) = 0 => Len(c.raw_strings) = 0
    /\ Len(c.strings) > 0 =>
           /\ c.strings[1].string = 0
           /\ LET last == c.strings[Len(c.strings)]
              IN  last.string + last.length + 1 = Len(c.raw_strings)
    /\ \A i \in 1 .. (Len(c.strings) - 1) :
           c.strings[i].string + c.strings[i].length + 1 = c.strings[i + 1].string
    /\ \A i \in DOMAIN c.strings : Terminator(c, i) = 0

\* every descriptor's range [ptr, ptr + len] is inside the arena, the byte at
\* ptr + len is 0 and is_consistent() returns true
RangesInside(c) ==
    /\ AllInside(c)
    /\ \A i \in DOMAIN c.strings : Terminator(c, i) = 0
    /\ is_consistent(c)

\* the construction from a raw buffer and update lay the descriptors out over
\* the arena, make_contiguous and extend_prefix keep them so, and then every
\* range is inside the arena
TiledByConstruction ==
    ret \notin { "abort", "overflow" } =>
        /\ call.op \in { "StringLcpContainer(raw, init)",
                         "StringLcpContainer(raw, lcps, init)",
                         "update(raw)", "update(raw, lcps)" } => Tiled(obj)
        /\ call.op \in { "make_contiguous", "extend_prefix" } /\ Tiled(call.pre)
               => Tiled(obj)
        /\ Tiled(obj) => RangesInside(obj)

\* C16: after the construction from a raw buffer of null-terminated strings
\* and any of update, make_contiguous, extend_prefix, every descriptor's range
\* [ptr, ptr + len] is inside the arena, the byte at ptr + len is 0 and
\* is_consistent() returns true; and is_consistent() returns false whenever
\* the range of some descriptor, terminator included, leaves the arena.
C16_RangesInsideAndChecked ==
    /\ TiledByConstruction
    /\ ret \notin { "abort", "overflow" } /\ ~AllInside(obj) => ~is_consistent(obj)

\* is_consistent() accepts a descriptor whose terminator is behind the arena
C16_Witness ==
    /\ ret = "ok"
    /\ Len(obj.strings) = 1
    /\ obj.strings[1].string + obj.strings[1].length = Len(obj.raw_strings)
    /\ is_consistent(obj)
    /\ ~AllInside(obj)

\* extend_prefix was called with an lcp array that starts with a value other
\* than 0 or has another length than the container has strings
ExtendedMalformed ==
    /\ call.op = "extend_prefix"
    /\ \/ Len(call.arg) # Len(call.pre.strings)
       \/ Len(call.arg) > 0 /\ Head(call.arg) # 0

\* C17: extend_prefix(lcps') fails whenever lcps'[0] != 0 or lcps' has
\* another length than the container has strings, and then leaves arena,
\* descriptors and lcps as they were; the empty lcps' on the empty container
\* is accepted.
C17_ExtendPrefixRejects ==
    /\ ExtendedMalformed => ret = "abort" /\ obj = call.pre
    /\ call.op = "extend_prefix" /\ Len(call.arg) = 0 /\ Len(call.pre.strings) = 0
           => ret \notin { "abort", "overflow" } /\ Len(obj.strings) = 0

\* a build with NDEBUG extends "a" by lcps' = [1]: the string is now a 0 byte
\* followed by "a"
C17_Witness ==
    /\ ExtendedMalformed
    /\ ret = "unchecked"
    /\ call.arg = << 1 >>
    /\ Contents(call.pre) = << << 1 >> >>
    /\ Contents(obj) = << << 0, 1 >> >>

(***************************************************************************)
(* The Golomb-coded exchange.                                              *)
(***************************************************************************)
GolombEncoded == call.op = "alltoallv" /\ ret # << >>

GolombDecoded == GolombEncoded /\ ret.stage = "decoded"

\* the interval rank p addresses to rank j (j counted from 1)
IntervalOf(p, j) ==
    LET off == exclusive_scan(call.intervalSizes[p])[j]
    IN  SubSeq(call.sendData[p], off + 1, off + call.intervalSizes[p][j])

\* the words rank p sends to rank j
PacketOf(p, j) ==
    LET sizes == ret.encoded[p].encodedValuesSizes
        off == exclusive_scan(sizes)[j]
    IN  SubSeq(ret.encoded[p].encodedValues, off + 1, off + sizes[j])

\* C18: the Golomb-coded exchange returns on every rank what the plain
\* alltoallv returns; an empty interval sends no word, a non-empty interval
\* travels as the one packet [payload_len, b, delta-stream] in which
\* payload_len counts the b word and the delta words, the delta-stream
\* decodes with the packet's b to the interval, and the decoder ends each
\* packet at its end and stops at the end of what it received.
C18_GolombTransparent ==
    /\ GolombEncoded =>
           \A p \in PEs :
               /\ Len(ret.encoded[p].encodedValuesSizes) = envSize
               /\ Len(ret.encoded[p].encodedValues)
                      = SumSeq(ret.encoded[p].encodedValuesSizes)
               /\ \A j \in 1 .. envSize :
                      LET packet == PacketOf(p, j)
                      IN  IF Len(IntervalOf(p, j)) = 0 THEN Len(packet) = 0
                          ELSE /\ Len(packet) >= 3
                               /\ packet[1] = Len(packet) - 1
                               /\ getDeltaDecoding(SubSeq(packet, 3, Len(packet)), packet[2])
                                      = IntervalOf(p, j)
    /\ GolombDecoded =>
           \A p \in PEs :
               /\ ret.decoded[p].decodedValues
                      = alltoallv(call.sendData, call.intervalSizes, p)
               /\ ret.decoded[p].curDecodeIt = Len(ret.recvEncodedValues[p]) + 1
               /\ ret.decoded[p].packets
                      = Cardinality({ q \in PEs : call.intervalSizes[q][p + 1] > 0 })

\* rank 0 gets two values from itself and one from rank 1 in packets with
\* different b, rank 1 gets nothing from rank 0
C18_Witness ==
    /\ GolombDecoded
    /\ envSize = 2
    /\ call.intervalSizes[0] = << 2, 0 >>
    /\ call.intervalSizes[1][1] = 1
    /\ PacketOf(0, 1)[2] # PacketOf(1, 1)[2]
    /\ Len(ret.decoded[0].decodedValues) = 3
    /\ ret.decoded[0].decodedValues[2] # ret.decoded[0].decodedValues[1]

\* the universe of the interval of n values that is sent to a rank
UniverseOf(n) ==
    IF call.overload = "hashes" THEN bloomFilterSize \div envSize ELSE n + call.slack

\* C19 as stated: the b in the header of every packet is
\* max(1, round(U * ln 2 / n)).
C19_OptimalB ==
    GolombEncoded =>
        \A p \in PEs : \A j \in 1 .. envSize :
            LET n == call.intervalSizes[p][j]
            IN  n > 0 => PacketOf(p, j)[2] = getB(UniverseOf(n), n)

\* C19: the b in the header of every packet, with which its deltas are
\* coded, is max(1, round(U * ln 2 / n)) except that the overload for the
\* hashes puts 20000000000 in the place of 1 and the overload for the
\* duplicates puts 8 in the place of every value below 8.
C19_AdjustedB ==
    GolombEncoded =>
        \A p \in PEs : \A j \in 1 .. envSize :
            LET n == call.intervalSizes[p][j]
                optimal == getB(UniverseOf(n), n)
                b == PacketOf(p, j)[2]
            IN  n > 0 =>
                    /\ call.overload = "hashes" =>
                           b = (IF optimal = 1 THEN DenseB ELSE optimal)
                    /\ call.overload = "duplicates" => b = Max(optimal, MinGolombB)
                    /\ SubSeq(PacketOf(p, j), 3, Len(PacketOf(p, j)))
                           = getDeltaEncoding(IntervalOf(p, j), b)

\* duplicates: one packet with the optimal b = 9, one with b raised to 8
C19_Witness ==
    /\ GolombEncoded
    /\ envSize = 2
    /\ call.overload = "duplicates"
    /\ call.intervalSizes[0] = << 1, 2 >>
    /\ PacketOf(0, 1)[2] = 9
    /\ getB(UniverseOf(2), 2) < MinGolombB
    /\ PacketOf(0, 2)[2] = MinGolombB


\* the ranks hold at least two copies of one string of length L >= 1
\* between them, and the depth is at most L
CopiesProbed ==
    /\ TotalStrings(strings) >= 2
    /\ \A p, q \in PEs : \A i \in DOMAIN strings[p], j \in DOMAIN strings[q] :
         /\ strings[p][i] = strings[q][j]
         /\ Len(strings[p][i]) >= 1
         /\ depth <= Len(strings[p][i])

\* C20: when the ranks hold only copies of one string of length L >= 1 and
\* the round probes all strings at a depth d with 1 <= d <= L, every rank
\* returns all its local indices as duplicates and the distinguishing depth
\* of every copy is d.
C20_AllCopiesDuplicates ==
    \A p \in PEs :
        (Returned(p) /\ CopiesProbed) =>
            /\ indicesOfAllDuplicates[p] = AllIndices(strings[p])
            /\ results[p] = [i \in 1 .. Len(strings[p]) |-> depth]

\* C20 witness: scenario S3, four ranks with three copies of "a" each have
\* returned from the round at depth 1
C20_Witness ==
    /\ envSize = 4
    /\ \A p \in PEs : strings[p] = << << 1 >>, << 1 >>, << 1 >> >>
    /\ depth = 1
    /\ CopiesProbed
    /\ AllReturned
    /\ \A p \in PEs : indicesOfAllDuplicates[p] = << 0, 1, 2 >>

(***************************************************************************)
(* Properties of the start of distributed_sorter.                          *)
(***************************************************************************)
Started == call.op = "main" /\ ret # "startup"

Died == ret \notin { "startup", "running", "EXIT_SUCCESS" }

NotStrictlyDecreasing(l) == \E i \in 1 .. (Len(l) - 1) : l[i] <= l[i + 1]

\* C21: main dies with the message about the group sizes exactly for the
\* level schedules that have an adjacent pair l[i] <= l[i+1], and it does so
\* before any string is generated or sorted; a strictly decreasing schedule,
\* the empty and the one-element schedule included, passes the check.
C21_LevelsChecked ==
    Started =>
        /\ (ret = "the given group sizes must be decreasing")
               <=> NotStrictlyDecreasing(obj.levels)
        /\ NotStrictlyDecreasing(obj.levels) =>
               (Died /\ obj.generated = 0 /\ obj.sorts = << >>)

\* C21 witness: a schedule with equal neighbours has been rejected
C21_Witness ==
    /\ Started
    /\ obj.levels = << 4, 2, 2 >>
    /\ ret = "the given group sizes must be decreasing"

\* C22: with prefix compression selected and LCP compression not selected
\* main dies at startup and no sort iteration runs.
C22_PrefixWithoutLcpRejected ==
    (Started /\ call.key.prefix_compression /\ ~call.key.lcp_compression) =>
        (Died /\ obj.sorts = << >>)

\* C22 witness: a sort has run with the LCP byte encoder and without LCP
\* compression
C22_Witness ==
    /\ Started
    /\ call.key.prefix_compression /\ ~call.key.lcp_compression
    /\ Len(obj.sorts) >= 1
    /\ obj.sorts[1] = [ ByteEncoder |-> "EmptyLcpByteEncoderMemCpy",
                        LcpCompression |-> FALSE ]

(***************************************************************************)
(* Properties of rotate_strings_right.                                     *)
(***************************************************************************)
Rotating == call.op = "rotate_strings_right"

AllRotated == \A p \in PEs : ret[p] = "returned"

\* the nearest rank before p in ring order that does not skip, p itself
\* after a whole turn
RECURSIVE NearestBefore(_, _)
NearestBefore(p, k) ==
    IF k = 0 \/ ~call.skip_rank[pred(p)] THEN pred(p)
    ELSE NearestBefore(pred(p), k - 1)

\* C23: on a ring whose root does not skip, once all ranks have returned
\* the dest of a rank that does not skip is the source of the nearest rank
\* before it that does not skip (its own source if there is no other), and
\* the dest of a skipping rank is the data it forwarded from its predecessor
\* to its successor; source is an argument the function never writes.
C23_RotatedRight ==
    (Rotating /\ ~call.skip_rank[0] /\ AllRotated) =>
        \A p \in PEs :
            /\ obj.dest[p] = call.source[NearestBefore(p, envSize)]
            /\ call.skip_rank[p] =>
                   /\ obj.forwarded[p] = obj.dest[p]
                   /\ obj.send_count[p] = Len(obj.dest[p])

\* C23 witness: three ranks, the middle one skips and has forwarded the
\* source of the root, which the last rank received
C23_Witness ==
    /\ Rotating
    /\ envSize = 3
    /\ call.skip_rank = [p \in PEs |-> p = 1]
    /\ AllRotated
    /\ call.source[0] = << 1 >>
    /\ obj.forwarded[1] = << 1 >>
    /\ obj.dest[2] = << 1 >>
    /\ obj.dest[0] = call.source[2]

\* every receive so far was matched with a message of its own kind
MatchedInKind ==
    \A p \in PEs : \A i \in DOMAIN obj.matched[p] :
        obj.matched[p][i][1] = obj.matched[p][i][2]

\* C24: if the root does not skip every rank eventually returns, whatever
\* the other ranks' skip flags and whether sends are buffered or
\* synchronous; every count receive is matched with the count message and
\* every data receive with the data message of the sender; with assertions
\* compiled in, a skipping root is stopped by the assertion before it
\* communicates.
C24_DeadlockFree ==
    /\ (Rotating /\ ~call.skip_rank[0]) ~> AllRotated
    /\ [](Rotating /\ ~call.skip_rank[0] => MatchedInKind)
    /\ [](Rotating /\ call.skip_rank[0] /\ ~call.ndebug =>
              /\ ret[0] \in { "start", "abort" }
              /\ obj.got[0] = 0)

\* C24 witness: a ring of three ranks with synchronous sends in which only
\* the root does not skip has returned, two receives matched on every rank
C24_Witness ==
    /\ Rotating
    /\ envSize = 3
    /\ call.sync
    /\ call.skip_rank = [p \in PEs |-> p # 0]
    /\ AllRotated
    /\ \A p \in PEs : obj.matched[p] = << << "count", "count" >>, << "data", "data" >> >>

(***************************************************************************)
(* Properties of the two overloads of BloomFilter::filter.                 *)
(***************************************************************************)
\* a step of the overload with candidates leaves the results of all
\* non-candidates, the strings and the LCP arrays as they are
FilterFrame ==
    /\ strings' = strings
    /\ lcps' = lcps
    /\ call.overload = "candidates" =>
           \A p \in PEs : \A i \in 1 .. Len(strings[p]) :
               (i - 1) \notin Range(candidates[p]) => results'[p][i] = results[p][i]

\* a rank that returned from the overload without candidates has no entry
\* of an earlier round left
AllOverwritten ==
    \A p \in PEs :
        (call.overload = "all" /\ Returned(p)) =>
            \A i \in 1 .. Len(strings[p]) :
                results[p][i] = (IF depth > Len(strings[p][i]) THEN Len(strings[p][i]) ELSE depth)

\* C25: filter with a candidate list changes results only at candidates and
\* never changes the strings or the LCP array; filter without a candidate
\* list overwrites every entry of results.
C25_OnlyCandidatesWritten == [][FilterFrame]_vars /\ []AllOverwritten

\* C25 witness: a rank returned from the overload with candidates with a
\* candidate at the depth of the round next to a string that kept the depth
\* of the earlier round
C25_Witness ==
    /\ call.overload = "candidates"
    /\ \E p \in PEs :
         /\ Returned(p)
         /\ Len(strings[p]) = 2
         /\ candidates[p] = << 1 >>
         /\ results[p] = << EarlierDepth, depth >>

\* what the overload with candidates computes from all indices
GenCandidates(p) ==
    generateHashStringIndices(seed, strings[p], AllIndices(strings[p]), depth, lcps[p])

\* what the overload without candidates computes
GenAll(p) == generateHashStringIndicesAll(seed, strings[p], depth, lcps[p])

\* the lists a rank may ship after sorting, marking and dropping
Shippable(data) ==
    { SelectSend(localDuplicateIndices(sorted).values) : sorted \in SortOutcomes(data) }

FullCandidates ==
    call.overload = "all" \/ \A p \in PEs : candidates[p] = AllIndices(strings[p])

\* C26: with lcps[0] = 0 and depth >= 1 the overload without candidates and
\* the overload called with the candidates 0 .. n-1 generate the same hashes,
\* local duplicates and EOS candidates, so each rank ships what the other
\* overload ships, returns the list the other returns and writes the results
\* the other writes.
C26_OverloadsAgree ==
    FullCandidates =>
        \A p \in PEs :
            /\ GenAll(p) = GenCandidates(p)
            /\ pc[p] # "start" =>
                   /\ hashStringIndices[p] \in Shippable(GenAll(p).data)
                   /\ hashStringIndices[p] \in Shippable(GenCandidates(p).data)
                   /\ localLcpDuplicates[p] = GenAll(p).localDups
                   /\ eosCandidates[p] = GenCandidates(p).eosCandidates
            /\ Returned(p) =>
                   /\ results[p] = setDepthAll(strings[p], depth, GenCandidates(p).eosCandidates,
                                               [i \in 1 .. Len(strings[p]) |-> EarlierDepth])
                   /\ results[p] = setDepth(strings[p], depth, AllIndices(strings[p]),
                                            GenAll(p).eosCandidates,
                                            [i \in 1 .. Len(strings[p]) |-> EarlierDepth])
                   /\ indicesOfAllDuplicates[p] =
                          getSortedIndicesOfDuplicates(local_duplicates[p],
                              GenAll(p).localDups, duplicates[p], hashStringIndices[p])

\* C26 witness: both ranks returned from the overload with the candidates
\* 0 .. n-1; one string is a local LCP duplicate, one is an EOS candidate
C26_Witness ==
    /\ call.overload = "candidates"
    /\ envSize = 2
    /\ FullCandidates
    /\ AllReturned
    /\ \E p \in PEs : GenAll(p).localDups # << >>
    /\ \E p \in PEs : GenAll(p).eosCandidates # << >>
    /\ \E p \in PEs : indicesOfAllDuplicates[p] # << >>

(***************************************************************************)
(* Properties of filter_exact.                                             *)
(***************************************************************************)
\* the candidates of all ranks: << rank, index >>
ExactCandidates == { c \in PEs \X (0 .. (MaxStrings - 1)) : c[2] \in Range(candidates[c[1]]) }

StringAt(c) == strings[c[1]][c[2] + 1]

\* 1 + the largest lcp of the candidate with another gathered candidate,
\* which in sorted order is a neighbour; 0 if it is the only one
ExactDepth(c) ==
    LET others == ExactCandidates \ { c }
    IN  IF others = {} THEN 0
        ELSE 1 + (CHOOSE m \in { calc_lcp(StringAt(c), StringAt(o)) : o \in others } :
                      \A o \in others : calc_lcp(StringAt(c), StringAt(o)) <= m)

\* the results filter_exact leaves on rank p, from the arguments alone
ExactResults(p) ==
    [i \in 1 .. Len(strings[p]) |->
        IF (i - 1) \in Range(candidates[p])
        THEN Max(call.results[p][i], ExactDepth(<< p, i - 1 >>))
        ELSE call.results[p][i]]

\* C27: both classes leave the same results for the same strings,
\* candidates and initial results; ExcatDistinguishingPrefix gathers counts,
\* indices, characters and BloomfilterTest characters, counts, indices, and
\* all ranks of one call gather in the same order.
C27_SameOperation ==
    call.op = "filter_exact" =>
        \A p \in PEs :
            /\ Returned(p) => results[p] = ExactResults(p)
            /\ \E n \in 0 .. 3 :
                 colls[p] = SubSeq(
                     IF call.class = "ExcatDistinguishingPrefix"
                     THEN << "allgather(numStrings)", "allgatherv(candidates)",
                             "allgatherv(send_buffer)" >>
                     ELSE << "allgatherv(send_buffer)", "allgather(numStrings)",
                             "allgatherv(candidates)" >>, 1, n)

\* C27 witness: both ranks returned from BloomfilterTest::filter_exact with
\* a raised result
C27_Witness ==
    /\ call.op = "filter_exact"
    /\ call.class = "BloomfilterTest"
    /\ envSize = 2
    /\ AllReturned
    /\ colls[0] = << "allgatherv(send_buffer)", "allgather(numStrings)",
                     "allgatherv(candidates)" >>
    /\ \E p \in PEs : results[p] # call.results[p]

\* C28: after filter_exact the result of a candidate is the larger of its
\* previous result and 1 + the largest lcp with its neighbours in the sorted
\* order of all gathered candidates; no result decreases, the results of
\* non-candidates are unchanged, only the owner's results are written.
C28_ExactDepths ==
    call.op = "filter_exact" =>
        \A p \in PEs :
            /\ Len(results[p]) = Len(strings[p])
            /\ \A i \in 1 .. Len(strings[p]) :
                 /\ results[p][i] >= call.results[p][i]
                 /\ (i - 1) \notin Range(candidates[p]) => results[p][i] = call.results[p][i]
                 /\ ~Returned(p) => results[p][i] = call.results[p][i]
                 /\ (Returned(p) /\ (i - 1) \in Range(candidates[p])) =>
                        results[p][i] = Max(call.results[p][i], ExactDepth(<< p, i - 1 >>))

\* C28 witness: rank 0 holds "a" and "ab" as candidates and rank 1 "ab";
\* "a" is raised to 2, the two "ab" to 3, a larger previous result is kept
C28_Witness ==
    /\ call.op = "filter_exact"
    /\ envSize = 2
    /\ AllReturned
    /\ strings[0] = << << 1 >>, << 1, 2 >> >>
    /\ strings[1] = << << 1, 2 >> >>
    /\ candidates[0] = << 0, 1 >>
    /\ candidates[1] = << 0 >>
    /\ call.results[0] = << 0, 0 >>
    /\ results[0] = << 2, 3 >>
    /\ results[1] = << 3 >>

(***************************************************************************)
(* Properties of distribute_ranks and count_duplicate_ranks.               *)
(***************************************************************************)
RanksDistributed == call.op = "count_duplicate_ranks" /\ ret \in { "distributed", "done" }

\* how often value x is held, over all processes
Held(all_ranks, x) == SumSeq([k \in 1 .. envSize |-> Count(all_ranks[k - 1], x)])

RankValues(all_ranks) == UNION { Range(all_ranks[p]) : p \in PEs }

\* C29: distribute_ranks sends every rank x to process
\* x / ceil(U / P), U the global maximum plus one: the destination is in
\* [0, P), equal values arrive on the same process, the received vectors
\* hold the multiset of the inputs, and nothing is divided by zero, also
\* when no process holds a rank.
C29_RanksDistributed ==
    call.op = "count_duplicate_ranks" =>
        /\ ret # "division by zero"
        /\ RanksDistributed =>
             LET U == MaxOf({ x + 1 : x \in RankValues(call.global_ranks) })
                 P == envSize
             IN  /\ \A x \in RankValues(call.global_ranks) :
                       LET d == x \div ((U + P - 1) \div P)
                       IN  /\ d \in 0 .. (P - 1)
                           /\ x \in Range(obj.dist_ranks[d])
                           /\ \A q \in PEs \ { d } : x \notin Range(obj.dist_ranks[q])
                 /\ \A x \in 0 .. MaxRank :
                       Held(obj.dist_ranks, x) = Held(call.global_ranks, x)

\* C29 witness: three processes, the ranks 0, 3, 3 held by different
\* processes are distributed, the two 3 to the last process
C29_Witness ==
    /\ RanksDistributed
    /\ envSize = 3
    /\ call.global_ranks = [p \in PEs |-> IF p = 0 THEN << 3 >> ELSE IF p = 1 THEN << 0 >> ELSE << 3 >>]
    /\ obj.dist_ranks[0] = << 0 >>
    /\ obj.dist_ranks[1] = << 3, 3 >>

\* C29 witness of the empty case: no process holds a rank and the call
\* returns
C29_EmptyReturns ==
    /\ RanksDistributed
    /\ RankValues(call.global_ranks) = {}

Reported(field) == SumSeq([k \in 1 .. envSize |-> obj.added[k - 1][1][field]])

\* C30: count_duplicate_ranks reports distinct_ranks as the
\* number of distinct rank values and total_duplicates as the number of
\* entries whose value occurs more than once, for every multiset of ranks.
C30_DuplicatesCounted ==
    (call.op = "count_duplicate_ranks" /\ ret = "done") =>
        /\ Reported("distinct_ranks") = Cardinality(RankValues(call.global_ranks))
        /\ Reported("total_duplicates") =
             SumSeq([x \in 1 .. (MaxRank + 1) |->
                        IF Held(call.global_ranks, x - 1) > 1
                        THEN Held(call.global_ranks, x - 1) ELSE 0])

\* C30 witness: the ranks 0, 0, 1 are counted as two distinct ranks and two
\* duplicates
C30_Witness ==
    /\ call.op = "count_duplicate_ranks"
    /\ ret = "done"
    /\ envSize = 1
    /\ call.global_ranks[0] = << 0, 1, 0 >>
    /\ Reported("distinct_ranks") = 2
    /\ Reported("total_duplicates") = 2

======================================================================
